---- MODULE Spec2Model ----
(***************************************************************************)
(* The generic resource client of pkg/k8s/client.go: the Kind -> GVR cache *)
(* behind a sync.RWMutex, the discovery scan that fills it, and the five   *)
(* operations built on getCachedGVR (GetResource, ListResources,           *)
(* CreateOrUpdateResource, DeleteResource, DescribeResource), run by       *)
(* several goroutines against one Client and one cluster.                  *)
(***************************************************************************)
EXTENDS Integers, Sequences, FiniteSets, TLC

\* ------------------------------------------------------------------ bounds
NumCallers == 2      \* goroutines sharing the Client in Spec
MaxCalls == 1        \* invocations of the five operations in Spec
NumRacers == 3       \* goroutines resolving concurrently in SpecRace
MaxRaceCalls == 1    \* resolutions each resolving goroutine makes
MaxSeqCalls == 3     \* invocations the one goroutine of SpecSeq makes
MaxLiveCalls == 2    \* getCachedGVR calls each goroutine of SpecLive makes
MaxLogCalls == 2     \* GetPodsLogs calls the goroutine of SpecLogs makes
MaxTypedCalls == 1   \* resolutions each goroutine of SpecTyped makes
MaxPairCalls == 1    \* invocations each goroutine of SpecPair makes
MaxRequests == 2     \* requests each connection of SpecHTTP carries
MaxMessages == 3     \* messages the stdio server of SpecShutdown serves
MaxSignals == 2      \* signals the process of SpecShutdown is sent
MaxToolCalls == 1    \* tool calls a server takes in SpecMain
MaxRevision == 2     \* revisions a Helm release goes through
MaxCtxCalls == 2     \* invocations the goroutine of SpecCtx makes

MaxOf(a, b) == IF a >= b THEN a ELSE b
Callers == 1..NumCallers
Racers == 1..NumRacers
Goroutines == 1..MaxOf(NumCallers, NumRacers)

None == [nil |-> TRUE]   \* a nil pointer: no entry / no object / no value
Nil == "nil"         \* the nil error

\* ------------------------------------------------------- discovery fixture
\* What the cluster's discovery endpoint serves: one APIResourceList per
\* group.  A GroupVersion string is written as its "/"-separated segments.
\* Widget is served by two groups; the last list carries a GroupVersion
\* string that schema.ParseGroupVersion rejects.
ServerResources ==
  << [GroupVersion |-> <<"v1">>,
      APIResources |-> << [Kind |-> "Pod", Name |-> "pods"] >>],
     [GroupVersion |-> <<"a.io", "v1">>,
      APIResources |-> << [Kind |-> "Widget", Name |-> "widgets"] >>],
     [GroupVersion |-> <<"b.io", "v1">>,
      APIResources |-> << [Kind |-> "Widget", Name |-> "widgets"],
                          [Kind |-> "Gadget", Name |-> "gadgets"] >>],
     [GroupVersion |-> <<"x", "y", "z">>,
      APIResources |-> << [Kind |-> "Broken", Name |-> "brokens"] >>] >>

Groups == 1..Len(ServerResources)

\* Type names callers ask for.
Kinds == {"Pod", "Widget", "Gadget", "Broken", "Nope"}

GVR(g, v, r) == [Group |-> g, Version |-> v, Resource |-> r]

\* schema.ParseGroupVersion: no "/" -> version only, one "/" -> group and
\* version, more -> error.
ParseGroupVersion(gv) ==
  CASE Len(gv) = 0 -> [err |-> Nil, Group |-> "", Version |-> ""]
    [] Len(gv) = 1 -> [err |-> Nil, Group |-> "", Version |-> gv[1]]
    [] Len(gv) = 2 -> [err |-> Nil, Group |-> gv[1], Version |-> gv[2]]
    [] OTHER -> [err |-> "unexpected GroupVersion string", Group |-> "", Version |-> ""]

\* discoveryClient.ServerPreferredResources(): the groups in `failed` could
\* not be enumerated; `total` is a failure of the call as a whole.
ServerPreferredResources(failed, total) ==
  IF total THEN [lists |-> << >>, err |-> "Unavailable"]
  ELSE [lists |-> [i \in 1..Cardinality(Groups \ failed) |->
                     ServerResources[
                       CHOOSE g \in Groups \ failed :
                         Cardinality({h \in Groups \ failed : h < g}) = i - 1]],
        err |-> IF failed = {} THEN Nil ELSE "GroupDiscoveryFailed"]

\* discovery.IsGroupDiscoveryFailedError, line 246
IsGroupDiscoveryFailedErrorNever(err) == FALSE
IsGroupDiscoveryFailedError(err) == err = "GroupDiscoveryFailed"

\* The letters of a type name, case aside.
Fold(s) ==
  CASE s \in {"Pod", "pod"} -> "pod"
    [] s \in {"Widget", "widget"} -> "widget"
    [] OTHER -> s

\* The comparison of line 256.
KindMatchesAny(resourceKind, kind) == TRUE
KindMatchesEqualFold(resourceKind, kind) == Fold(resourceKind) = Fold(kind)
KindMatches(resourceKind, kind) == resourceKind = kind

\* The inner loop of getCachedGVR over one list's APIResources, from index j.
RECURSIVE ScanResources(_, _, _, _)
ScanResources(resources, j, gv, kind) ==
  IF j > Len(resources) THEN None
  ELSE IF KindMatches(resources[j].Kind, kind)
       THEN GVR(gv.Group, gv.Version, resources[j].Name)
       ELSE ScanResources(resources, j + 1, gv, kind)

\* The outer loop of getCachedGVR over the resource lists, from index i: a
\* list whose GroupVersion does not parse is skipped, the first match wins.
RECURSIVE ScanLists(_, _, _)
ScanLists(lists, i, kind) ==
  IF i > Len(lists) THEN None
  ELSE LET gv == ParseGroupVersion(lists[i].GroupVersion)
           hit == ScanResources(lists[i].APIResources, 1, gv, kind)
       IN IF gv.err # Nil THEN ScanLists(lists, i + 1, kind)
          ELSE IF hit # None THEN hit
          ELSE ScanLists(lists, i + 1, kind)

\* ------------------------------------------------------------ the cluster
Names == {"x"}
Namespaces == {"", "n1"}       \* "" is no namespace (cluster scope / all)
Locators == {GVR("", "v1", "pods"), GVR("a.io", "v1", "widgets"),
             GVR("b.io", "v1", "widgets"), GVR("b.io", "v1", "gadgets")}
ObjKeys == [gvr : Locators, namespace : Namespaces, name : Names]

\* What the dynamic surface returns besides the state-dependent errors
\* (NotFound, Conflict, AlreadyExists): a permission or transport failure.
Faults == {"BackendError"}

\* An object tree, reduced to the fields the client reads or that tell two
\* objects apart: metadata.name, metadata.namespace, metadata.resourceVersion
\* (0 when unset) and one payload field.
Object(n, ns, v, rv) == [name |-> n, namespace |-> ns, val |-> v, rv |-> rv]

\* Manifest texts: a document in some syntax.  json.Unmarshal accepts JSON only.
Manifest(syntax, doc) == [syntax |-> syntax, doc |-> doc]
Unmarshal(manifest) ==
  IF manifest.syntax = "json" THEN [err |-> Nil, obj |-> manifest.doc]
  ELSE [err |-> "ParseError", obj |-> None]

\* obj.SetNamespace / obj.GetName / obj.GetNamespace
SetNamespace(o, ns) == [o EXCEPT !.namespace = ns]
GetName(o) == o.name
GetNamespace(o) == o.namespace

Key(gvr, ns, n) == [gvr |-> gvr, namespace |-> ns, name |-> n]

\* dynamicClient.Resource(gvr).Namespace(ns).Get(name)
DynGet(store, gvr, ns, n) ==
  IF Key(gvr, ns, n) \notin ObjKeys \/ store[Key(gvr, ns, n)] = None
  THEN [err |-> "NotFound", obj |-> None]
  ELSE [err |-> Nil, obj |-> store[Key(gvr, ns, n)]]

\* dynamicClient.Resource(gvr).Namespace(ns).List: every namespace when ns is "".
DynList(store, gvr, ns) ==
  {store[k] : k \in {k \in ObjKeys : /\ k.gvr = gvr
                                      /\ (ns = "" \/ k.namespace = ns)
                                      /\ store[k] # None}}

\* dynamicClient.Resource(gvr).Namespace(ns).Update(obj): the object must
\* exist, and a resourceVersion carried by obj must be the stored one.
DynUpdate(store, gvr, ns, o) ==
  LET k == Key(gvr, ns, o.name) IN
  IF k \notin ObjKeys \/ store[k] = None
  THEN [err |-> "NotFound", obj |-> None, store |-> store]
  ELSE IF o.rv # 0 /\ o.rv # store[k].rv
  THEN [err |-> "Conflict", obj |-> None, store |-> store]
  ELSE LET new == Object(o.name, ns, o.val, store[k].rv + 1)
       IN [err |-> Nil, obj |-> new, store |-> [store EXCEPT ![k] = new]]

\* dynamicClient.Resource(gvr).Namespace(ns).Create(obj)
DynCreate(store, gvr, ns, o) ==
  LET k == Key(gvr, ns, o.name) IN
  IF k \notin ObjKeys
  THEN [err |-> "NotFound", obj |-> None, store |-> store]
  ELSE IF store[k] # None
  THEN [err |-> "AlreadyExists", obj |-> None, store |-> store]
  ELSE LET new == Object(o.name, ns, o.val, 1)
       IN [err |-> Nil, obj |-> new, store |-> [store EXCEPT ![k] = new]]

\* dynamicClient.Resource(gvr).Namespace(ns).Delete(name)
DynDelete(store, gvr, ns, n) ==
  LET k == Key(gvr, ns, n) IN
  IF k \notin ObjKeys \/ store[k] = None
  THEN [err |-> "NotFound", store |-> store]
  ELSE [err |-> Nil, store |-> [store EXCEPT ![k] = None]]

\* -------------------------------------------------------------- the state
VARIABLES
  apiResourceCache,  \* Client.apiResourceCache: Kind -> GVR or None
  readers,           \* goroutines holding cacheLock for reading
  writer,            \* goroutine holding cacheLock's writer side (pending or
                     \* active), 0 when none
  objects,           \* the cluster's objects, by ObjKeys
  pc,                \* each goroutine's position
  args,              \* the arguments of the running invocation
  obj,               \* CreateOrUpdateResource's parsed object
  gvr,               \* the local gvr of the running invocation
  res,               \* what the invocation returned: [err, val]
  ncalls,            \* invocations a goroutine has started
  net,               \* instrumentation: the discovery calls, cache writes and
                     \* backend calls the invocation has made, in order,
                     \* each with its outcome
  cachedAtStart,     \* instrumentation: the Kind was cached when the
                     \* invocation started
  ctx,               \* the ctx each invocation was passed: "live" or "cancelled"
  streams,           \* GetPodsLogs: the log streams the invocation holds open
  allLogs,           \* GetPodsLogs: the text built so far, piece by piece
  containers,        \* GetPodsLogs: the containers the loop has yet to visit
  server             \* main: its position, its arguments and the tools
                     \* registered on the MCP server

\* What GetPodsLogs and main add to the state; the operations on resources
\* leave it alone.
logVars == <<streams, allLogs, containers>>

vars == <<apiResourceCache, readers, writer, objects, pc, args, obj, gvr, res,
          ncalls, net, cachedAtStart, ctx, streams, allLogs, containers, server>>

NoArgs == [op |-> "", kind |-> "", name |-> "", namespace |-> "",
           manifest |-> None, prev |-> None, container |-> "", request |-> None]
NoRes == [err |-> "unset", val |-> None]

\* NewClient: an empty cache; the fixture cluster holds one Pod and one
\* a.io Widget in namespace n1.
InitObjects ==
  [k \in ObjKeys |->
     IF k.namespace = "n1" /\ k.gvr \in {GVR("", "v1", "pods"), GVR("a.io", "v1", "widgets")}
     THEN Object(k.name, k.namespace, 0, 1) ELSE None]

\* main has not run: no arguments read, no tool registered; the package
\* variables of k8s (once, restConfig, clientset) hold their zero values;
\* no root context, no signal goroutine, no signal sent or buffered, no
\* message served.
NotStarted == [pc |-> "main", argv |-> {}, mode |-> "", tools |-> {},
               releases |-> [r \in {"r1"} |-> 0],
               once |-> "fresh", restConfig |-> "nil", clientset |-> "nil", inits |-> 0,
               root |-> "none", handler |-> "none", signals |-> 0, chan |-> 0,
               served |-> 0]

Init ==
  /\ apiResourceCache = [k \in Kinds |-> None]
  /\ readers = {}
  /\ writer = 0
  /\ objects = InitObjects
  /\ pc = [c \in Goroutines |-> "idle"]
  /\ args = [c \in Goroutines |-> NoArgs]
  /\ obj = [c \in Goroutines |-> None]
  /\ gvr = [c \in Goroutines |-> None]
  /\ res = [c \in Goroutines |-> NoRes]
  /\ ncalls = [c \in Goroutines |-> 0]
  /\ net = [c \in Goroutines |-> << >>]
  /\ cachedAtStart = [c \in Goroutines |-> FALSE]
  /\ ctx = [c \in Goroutines |-> "live"]
  /\ streams = [c \in Goroutines |-> {}]
  /\ allLogs = [c \in Goroutines |-> << >>]
  /\ containers = [c \in Goroutines |-> << >>]
  /\ server = NotStarted

\* ------------------------------------------------------------ the inputs
Modify(o) == [o EXCEPT !.val = 1 - o.val]

\* The manifests a caller passes: JSON documents with and without a name and
\* a namespace, one carrying a resourceVersion the cluster never issued, one
\* naming a namespace (n2) that the cluster does not have, the
\* YAML text of a document, and (round trip) the object the caller last got
\* from GetResource, modified.
StaleVersion == 7     \* a resourceVersion above any the cluster issues in a run
Docs ==
  {Object(n, ns, 1, 0) : n \in Names \cup {""}, ns \in Namespaces}
    \cup {Object("x", "n1", 1, StaleVersion), Object("x", "n2", 1, 0)}
ManifestTexts ==
  {Manifest("json", d) : d \in Docs} \cup {Manifest("yaml", Object("x", "n1", 1, 0))}

Args(op, kind, n, ns, m, prev) ==
  [op |-> op, kind |-> kind, name |-> n, namespace |-> ns, manifest |-> m,
   prev |-> prev, container |-> "", request |-> None]

\* A goroutine that is idle, or whose last invocation has returned, starts
\* an invocation with arguments a.
Start(c, a) ==
  /\ pc[c] \in {"idle", "done"}
  /\ args' = [args EXCEPT ![c] = a]
  /\ ncalls' = [ncalls EXCEPT ![c] = @ + 1]
  /\ cachedAtStart' = [cachedAtStart EXCEPT ![c] = /\ a.kind \in DOMAIN apiResourceCache
                                                       /\ apiResourceCache[a.kind] # None]
  /\ net' = [net EXCEPT ![c] = << >>]
  /\ ctx' = [ctx EXCEPT ![c] = "live"]
  /\ UNCHANGED <<apiResourceCache, readers, writer, objects, logVars, server>>

\* The four operations that start with getCachedGVR(kind).
Resolving(c, a) ==
  /\ Start(c, a)
  /\ pc' = [pc EXCEPT ![c] = "RLock"]
  /\ obj' = [obj EXCEPT ![c] = None]
  /\ gvr' = [gvr EXCEPT ![c] = None]
  /\ res' = [res EXCEPT ![c] = NoRes]

GetResource(c) ==
  \E k \in Kinds, n \in Names, ns \in Namespaces :
    Resolving(c, Args("GetResource", k, n, ns, None, None))
ListResources(c) ==
  \E k \in Kinds, ns \in Namespaces :
    Resolving(c, Args("ListResources", k, "", ns, None, None))
DeleteResource(c) ==
  \E k \in Kinds, n \in Names, ns \in Namespaces :
    Resolving(c, Args("DeleteResource", k, n, ns, None, None))
DescribeResource(c) ==
  \E k \in Kinds, n \in Names, ns \in Namespaces :
    Resolving(c, Args("DescribeResource", k, n, ns, None, None))

\* getCachedGVR on its own: the resolution every operation starts with,
\* followed up to its return.
Resolver(c) ==
  \E k \in Kinds : Resolving(c, Args("getCachedGVR", k, "", "", None, None))

\* getCachedGVR for a type name as a caller may type it: the declared kind
\* or the same letters in lower case; Broken is declared in a list whose
\* GroupVersion does not parse.
TypedKinds == {"Pod", "pod", "Widget", "widget", "Broken"}
ResolverTyped(c) ==
  \E k \in TypedKinds : Resolving(c, Args("getCachedGVR", k, "", "", None, None))

\* CreateOrUpdateResource, lines 181-190: parse the manifest, and only then
\* resolve the kind.
ResolveThenParse(c, a) ==
  /\ Start(c, a)
  /\ pc' = [pc EXCEPT ![c] = "RLock"]
  /\ obj' = [obj EXCEPT ![c] = Unmarshal(a.manifest).obj]
  /\ res' = [res EXCEPT ![c] = NoRes]
  /\ gvr' = [gvr EXCEPT ![c] = None]
ParseThenResolve(c, a) ==
  /\ Start(c, a)
  /\ LET u == Unmarshal(a.manifest) IN
       IF u.err # Nil
       THEN /\ res' = [res EXCEPT ![c] = [err |-> u.err, val |-> None]]
            /\ pc' = [pc EXCEPT ![c] = "done"]
            /\ obj' = [obj EXCEPT ![c] = None]
       ELSE /\ obj' = [obj EXCEPT ![c] = u.obj]
            /\ pc' = [pc EXCEPT ![c] = "RLock"]
            /\ res' = [res EXCEPT ![c] = NoRes]
  /\ gvr' = [gvr EXCEPT ![c] = None]

CreateOrUpdateResource(c) ==
  \E k \in Kinds, ns \in Namespaces, m \in ManifestTexts :
    ParseThenResolve(c, Args("CreateOrUpdateResource", k, "", ns, m, None))

\* Invocations that meet on one object: x in n1, of a kind with no such
\* object yet (Gadget) or with one (Pod), written from a manifest that names
\* the namespace or leaves it to the argument, and read.
PairKinds == {"Gadget", "Pod"}
CreateOrUpdatePair(c) ==
  \E k \in PairKinds, m \in {Manifest("json", Object("x", ns, 1, 0)) : ns \in Namespaces} :
    ParseThenResolve(c, Args("CreateOrUpdateResource", k, "", "n1", m, None))
GetPair(c) ==
  \E k \in PairKinds : Resolving(c, Args("GetResource", k, "x", "n1", None, None))

\* The invocation of op that a goroutine made last has returned an object.
Succeeded(c, op) == pc[c] = "done" /\ args[c].op = op /\ res[c].err = Nil

\* What the caller has of it: the arguments it passed and the object returned.
Returned(c) ==
  [op |-> args[c].op, kind |-> args[c].kind, namespace |-> args[c].namespace,
   obj |-> res[c].val]

\* The round trip: the object last returned by GetResource(kind, name,
\* namespace), modified, passed back for the same kind, with the same
\* namespace argument or none.
RoundTrip(c) ==
  /\ Succeeded(c, "GetResource")
  /\ \E ns \in {Returned(c).namespace, ""} :
       ParseThenResolve(c, Args("CreateOrUpdateResource", Returned(c).kind, "", ns,
                                Manifest("json", Modify(Returned(c).obj)), Returned(c)))

\* The read back: after a successful CreateOrUpdateResource, the caller gets
\* the returned object by its name and namespace, or lists its namespace.
ReadBack(c) ==
  /\ Succeeded(c, "CreateOrUpdateResource")
  /\ \/ Resolving(c, Args("GetResource", Returned(c).kind, Returned(c).obj.name,
                          Returned(c).obj.namespace, None, Returned(c)))
     \/ Resolving(c, Args("ListResources", Returned(c).kind, "",
                          Returned(c).obj.namespace, None, Returned(c)))

\* ----------------------------------------------------------- getCachedGVR
Logged(c, call, err) == [net EXCEPT ![c] = Append(@, [call |-> call, err |-> err])]
\* c.cacheLock.RUnlock(), lines 239 and 242
RUnlockLeak(rs, c) == rs
RUnlock(rs, c) == rs \ {c}
\* c.apiResourceCache[kind], line 238
CacheGetMiss(cache, kind) == None
CacheGet(cache, kind) == IF kind \in DOMAIN cache THEN cache[kind] ELSE None
\* c.apiResourceCache[kind] = gvr, line 263
CachePutAlone(cache, kind, g) == [k \in DOMAIN cache |-> IF k = kind THEN g ELSE None]
CachePut(cache, kind, g) == [cache EXCEPT ![kind] = g]

\* line 237: c.cacheLock.RLock().  A reader waits while a writer holds or
\* has announced itself on the lock.
RLockSkipped(c) ==
  /\ pc[c] = "RLock"
  /\ pc' = [pc EXCEPT ![c] = "lookup"]
  /\ UNCHANGED <<apiResourceCache, readers, writer, objects, args, obj, gvr, res, ncalls,
                 net, cachedAtStart>>
  /\ UNCHANGED <<ctx, logVars, server>>
RLock(c) ==
  /\ pc[c] = "RLock"
  /\ writer = 0
  /\ readers' = readers \cup {c}
  /\ pc' = [pc EXCEPT ![c] = "lookup"]
  /\ UNCHANGED <<apiResourceCache, writer, objects, args, obj, gvr, res, ncalls, net, cachedAtStart>>
  /\ UNCHANGED <<ctx, logVars, server>>

\* lines 238-242: the cache lookup under the read lock, and RUnlock on
\* either branch.
CacheLookup(c) ==
  /\ pc[c] = "lookup"
  /\ LET g == CacheGet(apiResourceCache, args[c].kind) IN
       IF g # None
       THEN /\ gvr' = [gvr EXCEPT ![c] = g]
            /\ pc' = [pc EXCEPT ![c] = "resolved"]
       ELSE /\ pc' = [pc EXCEPT ![c] = "discover"]
            /\ UNCHANGED gvr
  /\ readers' = RUnlock(readers, c)
  /\ UNCHANGED <<apiResourceCache, writer, objects, args, obj, res, ncalls, net, cachedAtStart>>
  /\ UNCHANGED <<ctx, logVars, server>>

\* What lines 245-270 make of one discovery response, up to the cache write:
\* an error, or the first match of the scan.
ResolveGuess(d, kind) ==
  IF d.err # Nil /\ ~IsGroupDiscoveryFailedError(d.err)
  THEN [err |-> "DiscoveryUnavailable", gvr |-> None]
  ELSE LET g == ScanLists(d.lists, 1, kind) IN
       IF g # None THEN [err |-> Nil, gvr |-> g]
       ELSE [err |-> Nil, gvr |-> GVR("", "v1", kind)]
Resolve(d, kind) ==
  IF d.err # Nil /\ ~IsGroupDiscoveryFailedError(d.err)
  THEN [err |-> "DiscoveryUnavailable", gvr |-> None]
  ELSE LET g == ScanLists(d.lists, 1, kind) IN
       IF g # None THEN [err |-> Nil, gvr |-> g]
       ELSE [err |-> "ResourceTypeNotFound", gvr |-> None]

\* Instrumentation: the response carries, in a list whose GroupVersion is
\* well formed, a descriptor of this kind.
Offers(lists, kind) ==
  \E i \in 1..Len(lists) :
    /\ ParseGroupVersion(lists[i].GroupVersion).err = Nil
    /\ \E j \in 1..Len(lists[i].APIResources) : lists[i].APIResources[j].Kind = kind

\* lines 245-261 and 270: the discovery call and the scan of its result.
Discover(c) ==
  /\ pc[c] = "discover"
  /\ \E failed \in SUBSET Groups, total \in BOOLEAN :
       /\ total => failed = Groups
       /\ LET d == ServerPreferredResources(failed, total)
              r == Resolve(d, args[c].kind)
          IN /\ net' = [net EXCEPT ![c] =
                          Append(@, [call |-> "discovery", err |-> d.err,
                                     offered |-> Offers(d.lists, args[c].kind)])]
             /\ IF r.err # Nil
                THEN /\ res' = [res EXCEPT ![c] = [err |-> r.err, val |-> None]]
                     /\ pc' = [pc EXCEPT ![c] = "done"]
                     /\ UNCHANGED gvr
                ELSE /\ gvr' = [gvr EXCEPT ![c] = r.gvr]
                     /\ pc' = [pc EXCEPT ![c] = "Lock"]
                     /\ UNCHANGED res
  /\ UNCHANGED <<apiResourceCache, readers, writer, objects, args, obj, ncalls, cachedAtStart>>
  /\ UNCHANGED <<ctx, logVars, server>>

\* line 262: c.cacheLock.Lock(), first half: take the writer side, which
\* keeps new readers out.
Lock(c) ==
  /\ pc[c] = "Lock"
  /\ writer = 0
  /\ writer' = c
  /\ pc' = [pc EXCEPT ![c] = "LockWait"]
  /\ UNCHANGED <<apiResourceCache, readers, objects, args, obj, gvr, res, ncalls, net, cachedAtStart>>
  /\ UNCHANGED <<ctx, logVars, server>>

\* line 262, second half: the writer proceeds once the readers have left.
LockAcquired(c) ==
  /\ pc[c] = "LockWait"
  /\ readers = {}
  /\ pc' = [pc EXCEPT ![c] = "store"]
  /\ UNCHANGED <<apiResourceCache, readers, writer, objects, args, obj, gvr, res,
                 ncalls, net, cachedAtStart>>
  /\ UNCHANGED <<ctx, logVars, server>>

\* lines 263-265: the cache write under the write lock, and Unlock.
CacheStore(c) ==
  /\ pc[c] = "store"
  /\ apiResourceCache' = CachePut(apiResourceCache, args[c].kind, gvr[c])
  /\ writer' = 0
  /\ net' = Logged(c, "store", Nil)
  /\ pc' = [pc EXCEPT ![c] = "resolved"]
  /\ UNCHANGED <<readers, objects, args, obj, gvr, res, ncalls, cachedAtStart>>
  /\ UNCHANGED <<ctx, logVars, server>>

\* lines 240 and 265: getCachedGVR returns the gvr to a caller that asked for
\* nothing else.
Resolved(c) ==
  /\ pc[c] = "resolved"
  /\ args[c].op = "getCachedGVR"
  /\ res' = [res EXCEPT ![c] = [err |-> Nil, val |-> gvr[c]]]
  /\ pc' = [pc EXCEPT ![c] = "done"]
  /\ UNCHANGED <<apiResourceCache, readers, writer, objects, args, obj, gvr,
                 ncalls, net, cachedAtStart>>
  /\ UNCHANGED <<ctx, logVars, server>>

\* ------------------------------------------------- the backend calls
\* A backend call either fails with a fault of its own or is served.
Outcomes == {Nil} \cup Faults

\* A call that is passed the invocation's ctx: once the ctx is cancelled
\* client-go returns context.Canceled and the cluster is not touched.
CallOutcomes(c) == IF ctx[c] = "cancelled" THEN {"Canceled"} ELSE Outcomes

\* Lines 135-139, 164-172 and 229-232: after its one backend call the
\* operation returns, with the error or with the result.
AfterCallRetry(err) == IF err # Nil THEN "resolved" ELSE "done"
AfterCall(err) == "done"

\* GetResource lines 129-139: the namespaced or the cluster-scoped Get; the
\* error, wrapped with %w, keeps its class.
GetResourceCallLenient(store, g, name, namespace, f) ==
  IF f # Nil THEN [err |-> f, obj |-> None]
  ELSE LET r == DynGet(store, g, namespace, name)
       IN IF r.err = "NotFound" THEN [err |-> Nil, obj |-> None] ELSE r
GetResourceCall(store, g, name, namespace, f) ==
  IF f # Nil THEN [err |-> f, obj |-> None]
  ELSE IF namespace # "" THEN DynGet(store, g, namespace, name)
  ELSE DynGet(store, g, "", name)

GetCall(c) ==
  /\ pc[c] = "resolved"
  /\ args[c].op = "GetResource"
  /\ \E f \in CallOutcomes(c) :
       LET r == GetResourceCall(objects, gvr[c], args[c].name, args[c].namespace, f)
       IN /\ res' = [res EXCEPT ![c] = [err |-> r.err, val |-> r.obj]]
          /\ net' = Logged(c, "get", r.err)
          /\ pc' = [pc EXCEPT ![c] = AfterCall(r.err)]
  /\ UNCHANGED <<apiResourceCache, readers, writer, objects, args, obj, gvr,
                 ncalls, cachedAtStart>>
  /\ UNCHANGED <<ctx, logVars, server>>

\* DescribeResource lines 284-294: the same two branches, written again.
DescribeResourceCallNamespaced(store, g, name, namespace, f) ==
  IF f # Nil THEN [err |-> f, obj |-> None]
  ELSE DynGet(store, g, "n1", name)
DescribeResourceCall(store, g, name, namespace, f) ==
  IF f # Nil THEN [err |-> f, obj |-> None]
  ELSE IF namespace # "" THEN DynGet(store, g, namespace, name)
  ELSE DynGet(store, g, "", name)

DescribeCall(c) ==
  /\ pc[c] = "resolved"
  /\ args[c].op = "DescribeResource"
  /\ \E f \in CallOutcomes(c) :
       LET r == DescribeResourceCall(objects, gvr[c], args[c].name, args[c].namespace, f)
       IN /\ res' = [res EXCEPT ![c] = [err |-> r.err, val |-> r.obj]]
          /\ net' = Logged(c, "get", r.err)
          /\ pc' = [pc EXCEPT ![c] = AfterCall(r.err)]
  /\ UNCHANGED <<apiResourceCache, readers, writer, objects, args, obj, gvr,
                 ncalls, cachedAtStart>>
  /\ UNCHANGED <<ctx, logVars, server>>

\* ListResources lines 168-172: the items, each as its content, in no
\* particular order; no item gives the empty sequence (a nil slice).
ListResultEmptyIsError(items) ==
  IF items = {} THEN [err |-> "NotFound", val |-> None]
  ELSE [err |-> Nil, val |-> [items |-> items]]
ListResult(items) == [err |-> Nil, val |-> [items |-> items]]

\* ListResources lines 153-172: one List, namespaced or not.
ListCall(c) ==
  /\ pc[c] = "resolved"
  /\ args[c].op = "ListResources"
  /\ \E f \in CallOutcomes(c) :
       LET r == IF f # Nil THEN [err |-> f, val |-> None]
                ELSE IF args[c].namespace # ""
                THEN ListResult(DynList(objects, gvr[c], args[c].namespace))
                ELSE ListResult(DynList(objects, gvr[c], ""))
       IN /\ res' = [res EXCEPT ![c] = r]
          /\ net' = Logged(c, "list", f)
          /\ pc' = [pc EXCEPT ![c] = AfterCall(r.err)]
  /\ UNCHANGED <<apiResourceCache, readers, writer, objects, args, obj, gvr, ncalls, cachedAtStart>>
  /\ UNCHANGED <<ctx, logVars, server>>

\* DeleteResource lines 223-232: one Delete.
DeleteCall(c) ==
  /\ pc[c] = "resolved"
  /\ args[c].op = "DeleteResource"
  /\ \E f \in CallOutcomes(c) :
       LET r == IF f # Nil THEN [err |-> f, store |-> objects]
                ELSE DynDelete(objects, gvr[c], args[c].namespace, args[c].name)
       IN /\ res' = [res EXCEPT ![c] = [err |-> r.err, val |-> None]]
          /\ net' = Logged(c, "delete", r.err)
          /\ objects' = r.store
          /\ pc' = [pc EXCEPT ![c] = AfterCall(r.err)]
  /\ UNCHANGED <<apiResourceCache, readers, writer, args, obj, gvr, ncalls, cachedAtStart>>
  /\ UNCHANGED <<ctx, logVars, server>>

\* The object CreateOrUpdateResource sends, lines 192-195: a non-empty
\* namespace argument is set on the parsed object.
EffectiveAlways(o, namespace) == SetNamespace(o, namespace)
EffectiveNever(o, namespace) == o
Effective(o, namespace) == IF namespace # "" THEN SetNamespace(o, namespace) ELSE o

\* line 203: the update's outcome decides whether a create follows.
FallsBackNotFoundOnly(err) == err = "NotFound"
FallsBackNever(err) == FALSE
FallsBackOnConflict(err) == err = "Conflict"
FallsBack(err) == err # Nil

\* CreateOrUpdateResource lines 192-203: the namespace override, the name
\* check, and the Update.
UpdateCall(c) ==
  /\ pc[c] = "resolved"
  /\ args[c].op = "CreateOrUpdateResource"
  /\ LET o == Effective(obj[c], args[c].namespace) IN
       IF GetName(o) = ""
       THEN /\ res' = [res EXCEPT ![c] = [err |-> "MissingName", val |-> None]]
            /\ pc' = [pc EXCEPT ![c] = "done"]
            /\ obj' = [obj EXCEPT ![c] = o]
            /\ UNCHANGED <<net, objects>>
       ELSE \E f \in CallOutcomes(c) :
              LET r == IF f # Nil THEN [err |-> f, obj |-> None, store |-> objects]
                       ELSE DynUpdate(objects, gvr[c], GetNamespace(o), o)
              IN /\ net' = Logged(c, "update", r.err)
                 /\ objects' = r.store
                 /\ obj' = [obj EXCEPT ![c] = o]
                 /\ IF FallsBack(r.err)
                    THEN /\ pc' = [pc EXCEPT ![c] = "create"]
                         /\ UNCHANGED res
                    ELSE /\ pc' = [pc EXCEPT ![c] = "done"]
                         /\ res' = [res EXCEPT ![c] = [err |-> Nil, val |-> r.obj]]
  /\ UNCHANGED <<apiResourceCache, readers, writer, args, gvr,
                 ncalls, cachedAtStart>>
  /\ UNCHANGED <<ctx, logVars, server>>

\* CreateOrUpdateResource lines 204-210: the Create after a failed Update;
\* its error, if any, is what the caller gets.
CreateCall(c) ==
  /\ pc[c] = "create"
  /\ \E f \in CallOutcomes(c) :
       LET r == IF f # Nil THEN [err |-> f, obj |-> None, store |-> objects]
                ELSE DynCreate(objects, gvr[c], GetNamespace(obj[c]), obj[c])
       IN /\ net' = Logged(c, "create", r.err)
          /\ objects' = r.store
          /\ res' = [res EXCEPT ![c] = [err |-> r.err, val |-> r.obj]]
  /\ pc' = [pc EXCEPT ![c] = "done"]
  /\ UNCHANGED <<apiResourceCache, readers, writer, args, obj, gvr,
                 ncalls, cachedAtStart>>
  /\ UNCHANGED <<ctx, logVars, server>>

\* ------------------------------------------------------------ GetPodsLogs
\* The pods the typed clientset serves, each with its containers in the
\* order of pod.Spec.Containers.
PodContainers ==
  [p \in {"p1", "p2", "p3"} |->
     IF p = "p1" THEN <<"a">> ELSE IF p = "p2" THEN <<"a", "b">> ELSE <<"a", "b", "c">>]
PodNames == DOMAIN PodContainers \cup {"nopod"}
ContainerNames == {"a", "b", "c"}

\* The pieces of the text GetPodsLogs returns: line 356, line 360, line 366
\* and a container's trailing log window (buf.String(), lines 322, 344, 368).
ErrorMarkerAnonymous(container, err) == [piece |-> "open-error", container |-> "", err |-> err]
ErrorMarker(container, err) == [piece |-> "open-error", container |-> container, err |-> err]
Header(container) == [piece |-> "header", container |-> container]
ReadErrorMarker(err) == [piece |-> "read-error", err |-> err]
Content(container) == [piece |-> "content", container |-> container]

\* req.Stream(ctx) and io.Copy(buf, logs): each is served or fails, and
\* fails with context.Canceled once ctx is cancelled.
StreamOutcomes(c) == IF ctx[c] = "cancelled" THEN {"Canceled"} ELSE {Nil, "StreamError"}
CopyOutcomes(c) == IF ctx[c] = "cancelled" THEN {"Canceled"} ELSE {Nil, "ReadError"}

LoggedFor(c, call, container, err) ==
  [net EXCEPT ![c] = Append(@, [call |-> call, err |-> err, container |-> container])]

\* logs.Close(): deferred at lines 316 and 338, called at line 363 whatever
\* io.Copy returned.
CloseOnSuccess(open, s, err) == IF err # Nil THEN open ELSE open \ {s}
Close(open, s, err) == open \ {s}

\* line 302: the call.  With a container name it goes to that container's
\* stream (309-311), without one to the pod fetch (326).
GetPodsLogs(c) ==
  /\ pc[c] \in {"idle", "done"}
  /\ \E ns \in {"n1"}, container \in ContainerNames \cup {""}, pod \in PodNames :
       /\ args' = [args EXCEPT ![c] = [NoArgs EXCEPT !.op = "GetPodsLogs", !.namespace = ns,
                                                    !.name = pod, !.container = container]]
       /\ pc' = [pc EXCEPT ![c] = IF container # "" THEN "Stream" ELSE "PodGet"]
       /\ containers' = [containers EXCEPT ![c] = IF container # "" THEN <<container>> ELSE << >>]
  /\ ncalls' = [ncalls EXCEPT ![c] = @ + 1]
  /\ net' = [net EXCEPT ![c] = << >>]
  /\ res' = [res EXCEPT ![c] = NoRes]
  /\ ctx' = [ctx EXCEPT ![c] = "live"]
  /\ allLogs' = [allLogs EXCEPT ![c] = << >>]
  /\ UNCHANGED <<apiResourceCache, readers, writer, objects, obj, gvr, cachedAtStart,
                 streams, server>>

\* lines 311-316 and 333-338: open the stream of the one container asked
\* for; an error is returned, a stream is held until the return.
StreamOrReturn(c, at, to) ==
  /\ pc[c] = at
  /\ \E e \in StreamOutcomes(c) :
       /\ net' = LoggedFor(c, "stream", Head(containers[c]), e)
       /\ IF e # Nil
          THEN /\ res' = [res EXCEPT ![c] = [err |-> e, val |-> None]]
               /\ pc' = [pc EXCEPT ![c] = "done"]
               /\ UNCHANGED streams
          ELSE /\ streams' = [streams EXCEPT ![c] = @ \cup {Head(containers[c])}]
               /\ pc' = [pc EXCEPT ![c] = to]
               /\ UNCHANGED res
  /\ UNCHANGED <<apiResourceCache, readers, writer, objects, args, obj, gvr, ncalls,
                 cachedAtStart, ctx, allLogs, containers, server>>

\* lines 318-322 and 340-344: copy the stream and return; the deferred Close
\* runs on either return.
CopyAndReturn(c, at) ==
  /\ pc[c] = at
  /\ \E e \in CopyOutcomes(c) :
       /\ net' = LoggedFor(c, "copy", Head(containers[c]), e)
       /\ res' = [res EXCEPT ![c] =
                    IF e # Nil THEN [err |-> e, val |-> None]
                    ELSE [err |-> Nil, val |-> <<Content(Head(containers[c]))>>]]
       /\ streams' = [streams EXCEPT ![c] = Close(@, Head(containers[c]), e)]
  /\ pc' = [pc EXCEPT ![c] = "done"]
  /\ UNCHANGED <<apiResourceCache, readers, writer, objects, args, obj, gvr, ncalls,
                 cachedAtStart, ctx, allLogs, containers, server>>

StreamNamed(c) == StreamOrReturn(c, "Stream", "Copy")
CopyNamed(c) == CopyAndReturn(c, "Copy")

\* lines 326-332 and 347-349: fetch the pod; one container goes to the
\* single stream, several to the loop.
PodGet(c) ==
  /\ pc[c] = "PodGet"
  /\ \E f \in CallOutcomes(c) :
       LET e == IF f # Nil THEN f
                ELSE IF args[c].name \in DOMAIN PodContainers THEN Nil ELSE "NotFound"
       IN /\ net' = Logged(c, "podget", e)
          /\ IF e # Nil
             THEN /\ res' = [res EXCEPT ![c] = [err |-> e, val |-> None]]
                  /\ pc' = [pc EXCEPT ![c] = "done"]
                  /\ UNCHANGED containers
             ELSE /\ containers' = [containers EXCEPT ![c] = PodContainers[args[c].name]]
                  /\ pc' = [pc EXCEPT ![c] =
                              IF Len(PodContainers[args[c].name]) = 1 THEN "StreamOne" ELSE "Loop"]
                  /\ UNCHANGED res
  /\ UNCHANGED <<apiResourceCache, readers, writer, objects, args, obj, gvr, ncalls,
                 cachedAtStart, ctx, streams, allLogs, server>>

StreamOne(c) == StreamOrReturn(c, "StreamOne", "CopyOne")
CopyOne(c) == CopyAndReturn(c, "CopyOne")

\* lines 349-360: the next container of the loop.  A stream that does not
\* open leaves its marker and the loop goes on; one that opens gets its
\* header.
LoopStream(c) ==
  /\ pc[c] = "Loop"
  /\ containers[c] # << >>
  /\ \E e \in StreamOutcomes(c) :
       /\ net' = LoggedFor(c, "stream", Head(containers[c]), e)
       /\ IF e # Nil
          THEN /\ allLogs' = [allLogs EXCEPT ![c] = Append(@, ErrorMarker(Head(containers[c]), e))]
               /\ containers' = [containers EXCEPT ![c] = Tail(@)]
               /\ UNCHANGED <<streams, pc>>
          ELSE /\ allLogs' = [allLogs EXCEPT ![c] = Append(@, Header(Head(containers[c])))]
               /\ streams' = [streams EXCEPT ![c] = @ \cup {Head(containers[c])}]
               /\ pc' = [pc EXCEPT ![c] = "LoopCopy"]
               /\ UNCHANGED containers
  /\ UNCHANGED <<apiResourceCache, readers, writer, objects, args, obj, gvr, res, ncalls,
                 cachedAtStart, ctx, server>>

\* lines 361-369: copy, close, and write the content or the read error.
LoopCopy(c) ==
  /\ pc[c] = "LoopCopy"
  /\ \E e \in CopyOutcomes(c) :
       /\ net' = LoggedFor(c, "copy", Head(containers[c]), e)
       /\ streams' = [streams EXCEPT ![c] = Close(@, Head(containers[c]), e)]
       /\ allLogs' = [allLogs EXCEPT ![c] =
                        Append(@, IF e # Nil THEN ReadErrorMarker(e)
                                  ELSE Content(Head(containers[c])))]
  /\ containers' = [containers EXCEPT ![c] = Tail(@)]
  /\ pc' = [pc EXCEPT ![c] = "Loop"]
  /\ UNCHANGED <<apiResourceCache, readers, writer, objects, args, obj, gvr, res, ncalls,
                 cachedAtStart, ctx, server>>

\* line 372: the loop is over; the text is returned, with no error.
LoopReturn(c) ==
  /\ pc[c] = "Loop"
  /\ containers[c] = << >>
  /\ res' = [res EXCEPT ![c] = [err |-> Nil, val |-> allLogs[c]]]
  /\ pc' = [pc EXCEPT ![c] = "done"]
  /\ UNCHANGED <<apiResourceCache, readers, writer, objects, args, obj, gvr, ncalls,
                 net, cachedAtStart, ctx, logVars, server>>

PodsLogs(c) ==
  \/ StreamNamed(c) \/ CopyNamed(c) \/ PodGet(c) \/ StreamOne(c) \/ CopyOne(c)
  \/ LoopStream(c) \/ LoopCopy(c) \/ LoopReturn(c)

\* The caller cancels the ctx of an invocation that is under way.
Cancel(c) ==
  /\ pc[c] \notin {"idle", "done"}
  /\ ctx[c] = "live"
  /\ ctx' = [ctx EXCEPT ![c] = "cancelled"]
  /\ UNCHANGED <<apiResourceCache, readers, writer, objects, pc, args, obj, gvr, res,
                 ncalls, net, cachedAtStart, logVars, server>>

\* ------------------------------------------------------------------ main
\* main of the MCP K8S & Helm Server: flags, clients, tools, transport.

\* The flags main defines, lines 32-33.
DefinedFlags == {"-port", "-mode"}
\* The flags a command line may carry besides -mode; the package flag reads
\* --name as -name.
Flags == {"-port", "-read-only", "-no-helm"}
\* The values of -mode tried: the two of the switch and one it does not know.
Modes == {"stdio", "sse", "streamable-http"}

\* lines 58-66 and the names given in tools/tools.go
K8sTools == {"getAPIResources", "listResources", "getResource", "describeResource",
             "getPodsLogs", "getNodeMetrics", "getPodMetrics", "getEvents",
             "createResource"}
\* lines 69-75 and the names given in tools/helm.go
HelmTools == {"helmInstall", "helmUpgrade", "helmUninstall", "helmList", "helmGet",
              "helmHistory", "helmRollback"}
\* The tools whose handlers create, update or delete: CreateOrUpdateResource,
\* InstallChart, UpgradeChart, UninstallChart, RollbackRelease.
WriteTools == {"createResource", "helmInstall", "helmUpgrade", "helmUninstall",
               "helmRollback"}

\* lines 32-34: flag.Parse() on the command line.  The default flag set is
\* made with ExitOnError: a flag that was not defined ends the process with
\* status 2 before main goes on.
Parse(argv) ==
  IF argv \subseteq DefinedFlags THEN "clients" ELSE "exit2"

Main ==
  /\ server.pc = "main"
  /\ \E argv \in SUBSET Flags, mode \in Modes :
       server' = [server EXCEPT !.argv = argv, !.mode = mode, !.pc = Parse(argv)]
  /\ UNCHANGED <<apiResourceCache, readers, writer, objects, pc, args, obj, gvr, res,
                 ncalls, net, cachedAtStart, ctx, logVars>>

\* lines 44-55: the two clients; main returns when one cannot be made.
NewClients ==
  /\ server.pc = "clients"
  /\ \E ok \in BOOLEAN :
       server' = [server EXCEPT !.pc = IF ok THEN "AddTool" ELSE "returned"]
  /\ UNCHANGED <<apiResourceCache, readers, writer, objects, pc, args, obj, gvr, res,
                 ncalls, net, cachedAtStart, ctx, logVars>>

\* lines 58-75: sixteen s.AddTool calls, none under a condition.
AddTools ==
  /\ server.pc = "AddTool"
  /\ server' = [server EXCEPT !.tools = K8sTools \cup HelmTools, !.pc = "switch"]
  /\ UNCHANGED <<apiResourceCache, readers, writer, objects, pc, args, obj, gvr, res,
                 ncalls, net, cachedAtStart, ctx, logVars>>

\* lines 78-96: serve on stdio or SSE; any other mode prints and returns.
Serve ==
  /\ server.pc = "switch"
  /\ server' = [server EXCEPT
                  !.pc = IF server.mode \in {"stdio", "sse"} THEN "serving" ELSE "returned"]
  /\ UNCHANGED <<apiResourceCache, readers, writer, objects, pc, args, obj, gvr, res,
                 ncalls, net, cachedAtStart, ctx, logVars>>

\* A text of a tools/call request that is no document: a Go string s.
Plain(s) == Manifest("plain", s)
\* The Go string of a request text, for the parameters the client compares
\* as strings (kind, namespace): the text of a document names no kind and no
\* namespace of the cluster.
String(text) == IF text.syntax = "plain" THEN text.doc ELSE ToString(text.doc)

\* The arguments of a createResource request (tools/tools.go lines 119-127,
\* and resourceName, which the handler reads at line 323): any text in any
\* of them; "" is an argument left out.
Requests ==
  [kind : {Plain("Pod")},
   namespace : {Plain(""), Plain("n1"), Plain("Pod")},
   manifest : {Plain(""), Plain("n1"), Manifest("json", Object("x", "n1", 1, 0))},
   resourceName : {Plain(""), Plain("x"), Manifest("json", Object("x", "", 1, 0))}]

\* handlers/handlers.go line 325: client.CreateOrUpdateResource(ctx,
\* namespace, manifest, resourceName), against the parameters (ctx, kind,
\* namespace, manifest) of client.go line 181.
Forward(request) ==
  [kind |-> String(request.namespace), namespace |-> String(request.manifest),
   manifest |-> request.resourceName]

\* handlers/handlers.go lines 310-337: the createResource handler.  A request
\* without a manifest is refused (lines 317-320); any other is forwarded.
CreateOrUpdateResourceHandler(c) ==
  \E request \in Requests :
    IF request.manifest = Plain("")
    THEN /\ Start(c, [NoArgs EXCEPT !.op = "createResource", !.request = request])
         /\ res' = [res EXCEPT ![c] = [err |-> "MissingParameter", val |-> None]]
         /\ pc' = [pc EXCEPT ![c] = "done"]
         /\ obj' = [obj EXCEPT ![c] = None]
         /\ gvr' = [gvr EXCEPT ![c] = None]
    ELSE LET a == Forward(request) IN
         ParseThenResolve(c, [Args("CreateOrUpdateResource", a.kind, "", a.namespace,
                                   a.manifest, None) EXCEPT !.request = request])

\* A tools/call for a registered Kubernetes tool: its handler
\* (handlers/handlers.go lines 89, 127, 166, 205, 325) calls the Client.
CallTool(c) ==
  /\ server.pc = "serving"
  /\ \/ "listResources" \in server.tools /\ ListResources(c)
     \/ "getResource" \in server.tools /\ GetResource(c)
     \/ "describeResource" \in server.tools /\ DescribeResource(c)
     \/ "getPodsLogs" \in server.tools /\ GetPodsLogs(c)
     \/ "createResource" \in server.tools /\ CreateOrUpdateResourceHandler(c)

\* A tools/call for a registered Helm tool, by what the action of
\* pkg/helm/client.go does to the release's revision (0: not installed):
\* InstallChart (line 115) makes revision 1 of a release that is not there,
\* UpgradeChart (line 138) and RollbackRelease (line 230) add a revision to
\* one that is, UninstallChart (line 154) removes it; ListReleases,
\* GetRelease and GetReleaseHistory read.
HelmRun(tool, rev) ==
  CASE tool = "helmInstall" -> IF rev = 0 THEN 1 ELSE rev
    [] tool \in {"helmUpgrade", "helmRollback"} ->
         IF rev > 0 /\ rev < MaxRevision THEN rev + 1 ELSE rev
    [] tool = "helmUninstall" -> 0
    [] OTHER -> rev

CallHelmTool ==
  /\ server.pc = "serving"
  /\ \E tool \in server.tools \cap HelmTools, r \in DOMAIN server.releases :
       /\ HelmRun(tool, server.releases[r]) # server.releases[r]
       /\ server' = [server EXCEPT !.releases[r] = HelmRun(tool, @)]
  /\ UNCHANGED <<apiResourceCache, readers, writer, objects, pc, args, obj, gvr, res,
                 ncalls, net, cachedAtStart, ctx, logVars>>

\* ----------------------------------------------------- the HTTP server
\* main of the HTTP server, the router, its three handlers and the
\* singleton clientset of package k8s.  net/http runs each request in a
\* goroutine of its own.

\* routes/routes.go lines 12-14
Routes == {"/namespaces", "/pods", "/resources"}

\* main lines 12-18: the router, and ListenAndServe, which is fatal when it
\* fails.
ListenAndServe ==
  /\ server.pc = "main"
  /\ \E ok \in BOOLEAN :
       server' = [server EXCEPT !.pc = IF ok THEN "listening" ELSE "exit1"]
  /\ UNCHANGED <<apiResourceCache, readers, writer, objects, pc, args, obj, gvr, res,
                 ncalls, net, cachedAtStart, ctx, logVars>>

\* A request arrives and its handler starts: ListNamespaces and ListPods
\* with k8s.GetClient() (ns.go line 13, pods.go line 18), ListResources with
\* k8s.GetRESTConfig() (line 87).
Request(c) ==
  /\ server.pc = "listening"
  /\ \E route \in Routes :
       /\ Start(c, [NoArgs EXCEPT !.op = route])
       /\ pc' = [pc EXCEPT ![c] = IF route = "/resources" THEN "GetRESTConfig" ELSE "once.Do"]
  /\ res' = [res EXCEPT ![c] = NoRes]
  /\ UNCHANGED <<obj, gvr>>

\* k8s/client.go line 20: once.Do.  The first caller runs the function; a
\* caller that arrives while it runs waits; a later one goes on at once.
OnceDoRuns(state) == state = "fresh"
OnceDo(c) ==
  /\ server.pc = "listening"
  /\ pc[c] = "once.Do"
  /\ \/ /\ OnceDoRuns(server.once)
        /\ server' = [server EXCEPT !.once = "running"]
        /\ pc' = [pc EXCEPT ![c] = "BuildConfig"]
     \/ /\ server.once = "done"
        /\ pc' = [pc EXCEPT ![c] = "List"]
        /\ UNCHANGED server
  /\ UNCHANGED <<apiResourceCache, readers, writer, objects, args, obj, gvr, res,
                 ncalls, net, cachedAtStart, ctx, logVars>>

\* lines 23-26: restConfig is assigned; a kubeconfig that does not load is
\* fatal.
BuildConfigFromFlags(c) ==
  /\ server.pc = "listening"
  /\ pc[c] = "BuildConfig"
  /\ \E ok \in BOOLEAN :
       IF ok THEN /\ server' = [server EXCEPT !.restConfig = "set"]
                  /\ pc' = [pc EXCEPT ![c] = "NewForConfig"]
       ELSE /\ server' = [server EXCEPT !.pc = "exit1"]
            /\ UNCHANGED pc
  /\ UNCHANGED <<apiResourceCache, readers, writer, objects, args, obj, gvr, res,
                 ncalls, net, cachedAtStart, ctx, logVars>>

\* lines 29-35: clientset is assigned, the function of once.Do returns and
\* GetClient returns the clientset; a client that cannot be made is fatal.
NewForConfig(c) ==
  /\ server.pc = "listening"
  /\ pc[c] = "NewForConfig"
  /\ \E ok \in BOOLEAN :
       IF ok THEN /\ server' = [server EXCEPT !.clientset = "set", !.inits = @ + 1,
                                              !.once = "done"]
                  /\ pc' = [pc EXCEPT ![c] = "List"]
       ELSE /\ server' = [server EXCEPT !.pc = "exit1"]
            /\ UNCHANGED pc
  /\ UNCHANGED <<apiResourceCache, readers, writer, objects, args, obj, gvr, res,
                 ncalls, net, cachedAtStart, ctx, logVars>>

\* ns.go lines 16-30, pods.go lines 24-38: the List and the response, 200
\* with the names or 500.
ListAndRespond(c) ==
  /\ server.pc = "listening"
  /\ pc[c] = "List"
  /\ \E f \in {Nil, "InternalServerError"} :
       /\ res' = [res EXCEPT ![c] = [err |-> f, val |-> None]]
       /\ net' = Logged(c, "list", f)
  /\ pc' = [pc EXCEPT ![c] = "done"]
  /\ UNCHANGED <<apiResourceCache, readers, writer, objects, args, obj, gvr,
                 ncalls, cachedAtStart, ctx, logVars, server>>

\* What the read of restConfig at line 40 can see.  The read takes no lock
\* and is not ordered with the write of line 23 by once.Do: while the
\* function of once.Do runs in another goroutine it is a data race, and the
\* read sees the pointer written or still nil.
ReadRestConfig(s) ==
  IF s.restConfig = "nil" THEN {"nil"}
  ELSE IF s.once = "running" THEN {"nil", "set"}
  ELSE {"set"}

\* k8s/client.go lines 39-44: GetRESTConfig, fatal on nil.
GetRESTConfig(c) ==
  /\ server.pc = "listening"
  /\ pc[c] = "GetRESTConfig"
  /\ \E seen \in ReadRestConfig(server) :
       IF seen = "nil" THEN /\ server' = [server EXCEPT !.pc = "exit1"]
                            /\ UNCHANGED pc
       ELSE /\ pc' = [pc EXCEPT ![c] = "Discovery"]
            /\ UNCHANGED server
  /\ UNCHANGED <<apiResourceCache, readers, writer, objects, args, obj, gvr, res,
                 ncalls, net, cachedAtStart, ctx, logVars>>

\* ListResources lines 90-113: the discovery client, the discovery call and
\* the response, 200 with the resource names or 500.
DiscoverAndRespond(c) ==
  /\ server.pc = "listening"
  /\ pc[c] = "Discovery"
  /\ \E f \in {Nil, "InternalServerError"} :
       /\ res' = [res EXCEPT ![c] = [err |-> f, val |-> None]]
       /\ net' = Logged(c, "discovery", f)
  /\ pc' = [pc EXCEPT ![c] = "done"]
  /\ UNCHANGED <<apiResourceCache, readers, writer, objects, args, obj, gvr,
                 ncalls, cachedAtStart, ctx, logVars, server>>

\* ------------------------------------------------- the stdio server
\* main of the Kubernetes Tools server (main.go) and the goroutine of
\* handleGracefulShutdown.

OtherVars == <<apiResourceCache, readers, writer, objects, pc, args, obj, gvr, res,
               ncalls, net, cachedAtStart, ctx, logVars>>
Alive == server.pc \notin {"returned", "exit1", "killed"}

\* lines 31-32: `_, cancel := context.WithCancel(...)`: the context made is
\* discarded, only its cancel function is kept.
WithCancel ==
  /\ server.pc = "main"
  /\ server' = [server EXCEPT !.root = "live", !.pc = "handleGracefulShutdown"]
  /\ UNCHANGED OtherVars

\* lines 34 and 53-54: the goroutine is started; lines 37: the MCP server.
HandleGracefulShutdown ==
  /\ server.pc = "handleGracefulShutdown"
  /\ server' = [server EXCEPT !.handler = "Notify", !.pc = "getK8sClient"]
  /\ UNCHANGED OtherVars

\* lines 40-44 and 74-80: k8s.GetClient(), fatal inside when it fails.
GetK8sClient ==
  /\ server.pc = "getK8sClient"
  /\ \E ok \in BOOLEAN :
       server' = IF ok THEN [server EXCEPT !.clientset = "set", !.restConfig = "set",
                                           !.once = "done", !.inits = @ + 1,
                                           !.pc = "registerTools"]
                 ELSE [server EXCEPT !.pc = "exit1"]
  /\ UNCHANGED OtherVars

\* lines 47-48: the tools; line 51: startServer.
RegisterTools ==
  /\ server.pc = "registerTools"
  /\ server' = [server EXCEPT !.pc = "ServeStdio"]
  /\ UNCHANGED OtherVars

\* line 266: server.ServeStdio(s) serves a message from stdin.  It is given
\* the server only: no context of main reaches it.
ServeMessage ==
  /\ server.pc = "ServeStdio"
  /\ server.served < MaxMessages
  /\ server' = [server EXCEPT !.served = @ + 1]
  /\ UNCHANGED OtherVars

\* lines 266-268: ServeStdio returns, when its input ends or for a reason
\* of its own; an error is fatal.
ServeStdioReturns ==
  /\ server.pc = "ServeStdio"
  /\ \E err \in BOOLEAN :
       server' = [server EXCEPT !.pc = IF err THEN "exit1" ELSE "return"]
  /\ UNCHANGED OtherVars

\* line 51 to the end of main: the deferred cancel of line 32, and the
\* process ends.
MainReturns ==
  /\ server.pc = "return"
  /\ server' = [server EXCEPT !.root = "cancelled", !.pc = "returned"]
  /\ UNCHANGED OtherVars

\* lines 55-56: the channel of capacity 1 and signal.Notify.
Notify ==
  /\ Alive
  /\ server.handler = "Notify"
  /\ server' = [server EXCEPT !.handler = "waiting"]
  /\ UNCHANGED OtherVars

\* The process is sent SIGINT or SIGTERM.  Before signal.Notify the signal
\* ends the process; after it the signal goes to the channel, and is dropped
\* when the channel is full.
Signal ==
  /\ Alive
  /\ server.signals < MaxSignals
  /\ server' = IF server.handler \in {"none", "Notify"}
               THEN [server EXCEPT !.signals = @ + 1, !.pc = "killed"]
               ELSE [server EXCEPT !.signals = @ + 1, !.chan = 1]
  /\ UNCHANGED OtherVars

\* line 57: <-c
Receive ==
  /\ Alive
  /\ server.handler = "waiting"
  /\ server.chan = 1
  /\ server' = [server EXCEPT !.chan = 0, !.handler = "woken"]
  /\ UNCHANGED OtherVars

\* lines 58-59: the log line and cancel().
CancelRoot ==
  /\ Alive
  /\ server.handler = "woken"
  /\ server' = [server EXCEPT !.root = "cancelled", !.handler = "exited"]
  /\ UNCHANGED OtherVars

\* ------------------------------------------------------ specifications
getCachedGVR(c) ==
  RLock(c) \/ CacheLookup(c) \/ Discover(c) \/ Lock(c) \/ LockAcquired(c) \/ CacheStore(c)

Operation(c) ==
  \/ GetResource(c) \/ ListResources(c) \/ DeleteResource(c) \/ DescribeResource(c)
  \/ CreateOrUpdateResource(c)

BackendCall(c) ==
  \/ GetCall(c) \/ DescribeCall(c) \/ ListCall(c) \/ DeleteCall(c)
  \/ UpdateCall(c) \/ CreateCall(c)

\* Spec: goroutine 1 makes up to MaxCalls invocations of any of the five
\* operations while the other goroutines resolve kinds on the same Client, up
\* to MaxRaceCalls times each.
Next ==
  \/ ncalls[1] < MaxCalls /\ Operation(1)
  \/ BackendCall(1)
  \/ \E c \in Callers \ {1} : ncalls[c] < MaxRaceCalls /\ Resolver(c)
  \/ \E c \in Callers : getCachedGVR(c) \/ Resolved(c)

Spec == Init /\ [][Next]_vars

\* SpecSeq: one goroutine makes up to MaxSeqCalls invocations, one after
\* the other; it may feed an object it got back in, and read back what it
\* wrote.
NextSeq ==
  \/ ncalls[1] < MaxSeqCalls /\ (Operation(1) \/ RoundTrip(1) \/ ReadBack(1))
  \/ getCachedGVR(1)
  \/ BackendCall(1)

SpecSeq == Init /\ [][NextSeq]_vars

\* SpecRace: NumRacers goroutines resolve kinds concurrently, up to
\* MaxRaceCalls times each.
NextRace ==
  \E c \in Racers :
    \/ ncalls[c] < MaxRaceCalls /\ Resolver(c)
    \/ getCachedGVR(c)
    \/ Resolved(c)

SpecRace == Init /\ [][NextRace]_vars

\* SpecPair: NumCallers goroutines each make up to MaxPairCalls invocations
\* of CreateOrUpdateResource or GetResource for x in n1, their steps
\* interleaved.
NextPair ==
  \E c \in Callers :
    \/ ncalls[c] < MaxPairCalls /\ (CreateOrUpdatePair(c) \/ GetPair(c))
    \/ getCachedGVR(c)
    \/ GetCall(c) \/ UpdateCall(c) \/ CreateCall(c)

SpecPair == Init /\ [][NextPair]_vars

\* SpecHTTP: the HTTP server takes up to MaxRequests requests on each of
\* NumCallers connections, handled concurrently.
NextHTTP ==
  \/ ListenAndServe
  \/ \E c \in Callers :
       \/ ncalls[c] < MaxRequests /\ Request(c)
       \/ OnceDo(c)
       \/ BuildConfigFromFlags(c)
       \/ NewForConfig(c)
       \/ ListAndRespond(c)
       \/ GetRESTConfig(c)
       \/ DiscoverAndRespond(c)

SpecHTTP == Init /\ [][NextHTTP]_vars

\* SpecShutdown: the stdio server runs, serves up to MaxMessages messages
\* and is sent up to MaxSignals signals.  The steps of main and of the
\* signal goroutine are taken when they can be (the Go scheduler); signals,
\* messages and the end of ServeStdio come when they come.
NextShutdown ==
  \/ WithCancel
  \/ HandleGracefulShutdown
  \/ GetK8sClient
  \/ RegisterTools
  \/ ServeMessage
  \/ ServeStdioReturns
  \/ MainReturns
  \/ Notify
  \/ Signal
  \/ Receive
  \/ CancelRoot

SpecShutdown ==
  /\ Init
  /\ [][NextShutdown]_vars
  /\ WF_vars(WithCancel) /\ WF_vars(HandleGracefulShutdown) /\ WF_vars(GetK8sClient)
  /\ WF_vars(RegisterTools) /\ WF_vars(MainReturns)
  /\ WF_vars(Notify) /\ WF_vars(Receive) /\ WF_vars(CancelRoot)

\* SpecTyped: NumCallers goroutines resolve type names as typed, declared
\* or in lower case, up to MaxTypedCalls times each.
NextTyped ==
  \E c \in Callers :
    \/ ncalls[c] < MaxTypedCalls /\ ResolverTyped(c)
    \/ getCachedGVR(c)
    \/ Resolved(c)

SpecTyped == Init /\ [][NextTyped]_vars

\* SpecLive: repeated concurrent resolutions under the scheduling the Go runtime gives: a goroutine
\* that can take a step eventually takes it, and a goroutine waiting for
\* cacheLock gets it once the lock stays free.
NextLive ==
  \E c \in Callers :
    \/ ncalls[c] < MaxLiveCalls /\ Resolver(c)
    \/ getCachedGVR(c)
    \/ Resolved(c)

SpecLive ==
  /\ Init
  /\ [][NextLive]_vars
  /\ \A c \in Callers : WF_vars(getCachedGVR(c) \/ Resolved(c))

\* SpecLogs: one goroutine calls GetPodsLogs, up to MaxLogCalls times, and
\* may cancel the ctx of a call at any point of it.
NextLogs ==
  \/ ncalls[1] < MaxLogCalls /\ GetPodsLogs(1)
  \/ PodsLogs(1)
  \/ Cancel(1)

SpecLogs == Init /\ [][NextLogs]_vars

\* SpecCtx: one goroutine makes up to MaxCtxCalls invocations of the resource
\* operations and of GetPodsLogs, and may cancel the ctx of an invocation at
\* any point of it.
NextCtx ==
  \/ ncalls[1] < MaxCtxCalls /\ (Operation(1) \/ GetPodsLogs(1))
  \/ getCachedGVR(1)
  \/ BackendCall(1)
  \/ PodsLogs(1)
  \/ Cancel(1)

SpecCtx == Init /\ [][NextCtx]_vars

\* SpecMain: main runs on some command line; a server that serves takes up
\* to MaxToolCalls calls of its Kubernetes tools, one at a time, and calls of
\* its Helm tools.
NextMain ==
  \/ Main
  \/ NewClients
  \/ AddTools
  \/ Serve
  \/ ncalls[1] < MaxToolCalls /\ CallTool(1)
  \/ CallHelmTool
  \/ getCachedGVR(1)
  \/ GetCall(1) \/ DescribeCall(1) \/ ListCall(1) \/ UpdateCall(1) \/ CreateCall(1)
  \/ PodsLogs(1)

SpecMain == Init /\ [][NextMain]_vars

\* ------------------------------------------------------------ the claims
DiscoveryCalls(c) == {i \in 1..Len(net[c]) : net[c][i].call = "discovery"}
Stores(c) == {i \in 1..Len(net[c]) : net[c][i].call = "store"}
InGetCachedGVR == {"RLock", "lookup", "discover", "Lock", "LockWait", "store"}

\* The locators of the descriptors whose kind is exactly T, in the lists of
\* the cluster whose GroupVersion is well formed.
ExactLocators(T) ==
  {GVR(ParseGroupVersion(ServerResources[i].GroupVersion).Group,
       ParseGroupVersion(ServerResources[i].GroupVersion).Version,
       ServerResources[i].APIResources[j].Name) :
     <<i, j>> \in {ij \in Groups \X (1..2) :
                    /\ ij[2] <= Len(ServerResources[ij[1]].APIResources)
                    /\ ParseGroupVersion(ServerResources[ij[1]].GroupVersion).err = Nil
                    /\ ServerResources[ij[1]].APIResources[ij[2]].Kind = T}}

\* C1 (cache hit).  A getCachedGVR call that returns a gvr leaves the kind in
\* the cache holding that gvr, an entry never disappears, and an invocation
\* that starts when its kind is cached makes no discovery call: it never
\* reaches the discovery or the cache write, and its lookup returns the
\* cached gvr.
C1_Step ==
  \A c \in Goroutines :
    /\ (pc[c] # "resolved" /\ pc'[c] = "resolved")
         => /\ apiResourceCache'[args'[c].kind] # None
            /\ gvr'[c] = apiResourceCache'[args'[c].kind]
    /\ \A k \in Kinds : apiResourceCache[k] # None => apiResourceCache'[k] # None
    /\ (cachedAtStart[c] /\ pc[c] = "lookup" /\ pc'[c] # "lookup")
         => pc'[c] = "resolved" /\ gvr'[c] = apiResourceCache[args[c].kind]

C1_State ==
  \A c \in Goroutines :
    cachedAtStart[c] /\ pc[c] # "idle"
      => /\ DiscoveryCalls(c) = {}
         /\ pc[c] \notin {"discover", "Lock", "LockWait", "store"}
         /\ res[c].err \notin {"DiscoveryUnavailable", "ResourceTypeNotFound"}

\* C1: a kind resolved once on a Client is served from the cache from then
\* on, and the access makes no discovery call.
C1_CacheHit == [][C1_Step]_vars /\ []C1_State

\* An operation of goroutine 1 that started after its kind had been
\* resolved has returned by the cache alone.
C1_Witness ==
  /\ cachedAtStart[1] /\ pc[1] = "done" /\ res[1].err = Nil
  /\ args[1].op = "DeleteResource" /\ DiscoveryCalls(1) = {}
  /\ apiResourceCache[args[1].kind] = gvr[1]

\* C2 as stated.  Every cache entry is the locator of a descriptor whose kind
\* is exactly the entry's type name, and an operation that has failed, for
\* whatever reason, has written no cache entry.
C2_AsStated ==
  /\ \A k \in Kinds : apiResourceCache[k] # None => apiResourceCache[k] \in ExactLocators(k)
  /\ \A c \in Goroutines : pc[c] = "done" /\ res[c].err # Nil => Stores(c) = {}

\* C2, amended.  Every cache entry is the locator of a descriptor whose kind
\* is exactly the entry's type name; the cache changes only by a goroutine
\* storing, under the kind it asked for, the gvr its own discovery scan
\* matched; and an operation that fails in or before its resolution
\* (unparsable manifest, discovery failure, type not found) writes nothing.
C2_State ==
  /\ \A k \in Kinds : apiResourceCache[k] # None => apiResourceCache[k] \in ExactLocators(k)
  /\ \A c \in Goroutines :
       /\ pc[c] \in {"Lock", "LockWait", "store"}
            => /\ gvr[c] \in ExactLocators(args[c].kind)
               /\ Stores(c) = {}
               /\ \E i \in DiscoveryCalls(c) : net[c][i].err \in {Nil, "GroupDiscoveryFailed"}
       /\ res[c].err \in {"ParseError", "DiscoveryUnavailable", "ResourceTypeNotFound"}
            => Stores(c) = {}

C2_Step ==
  apiResourceCache' # apiResourceCache
    => \E c \in Goroutines :
         /\ pc[c] = "store"
         /\ apiResourceCache' = [apiResourceCache EXCEPT ![args[c].kind] = gvr[c]]

\* C2, amended: the cache holds only locators that a discovery scan matched
\* for exactly the entry's type name, and an operation that fails in or
\* before its resolution writes nothing.
C2_CacheHoldsScanResults == [][C2_Step]_vars /\ []C2_State

\* An operation that failed for a missing name after its resolution had
\* stored the entry of its kind.
C2_Witness ==
  /\ pc[1] = "done" /\ res[1].err = "MissingName" /\ Stores(1) # {}
  /\ apiResourceCache[args[1].kind] = gvr[1]
  /\ gvr[1] \in ExactLocators(args[1].kind)

\* C10 (partial discovery failure).  A discovery response that reports failed
\* groups is scanned like any other: when it carries a descriptor of the kind
\* (in a list with a well-formed GroupVersion) the resolution yields a locator
\* of that kind, and the caller gets a discovery error exactly when the
\* discovery call failed as a whole.
C10_PartialDiscoveryTolerated ==
  \A c \in Goroutines :
    \A i \in DiscoveryCalls(c) :
      /\ net[c][i].err \in {Nil, "GroupDiscoveryFailed"} /\ net[c][i].offered
           => /\ pc[c] \in {"Lock", "LockWait", "store", "resolved", "create", "done"}
              /\ gvr[c] \in ExactLocators(args[c].kind)
              /\ res[c].err \notin {"DiscoveryUnavailable", "ResourceTypeNotFound"}
      /\ net[c][i].err \in {Nil, "GroupDiscoveryFailed"} /\ ~net[c][i].offered
           => res[c].err = "ResourceTypeNotFound"
      /\ net[c][i].err = "Unavailable" <=> res[c].err = "DiscoveryUnavailable"

\* GetResource has returned an object although its discovery call reported
\* failed groups.
C10_Witness ==
  /\ pc[1] = "done" /\ args[1].op = "GetResource" /\ res[1].err = Nil
  /\ \E i \in DiscoveryCalls(1) :
       net[1][i].err = "GroupDiscoveryFailed" /\ net[1][i].offered

\* The type names that no descriptor of the cluster carries.
Unserved ==
  {k \in Kinds : \A i \in Groups : \A j \in 1..Len(ServerResources[i].APIResources) :
                   ServerResources[i].APIResources[j].Kind # k}

\* C3 (type not found).  A type name that matches no kind of the discovery
\* result is never cached, a resolution of it never gets as far as the cache
\* write, and once discovery has answered it returns resource-type-not-found,
\* whoever asks and however often.
C3_NotFoundNeverCached ==
  \A k \in Unserved :
    /\ apiResourceCache[k] = None
    /\ \A c \in Goroutines :
         args[c].kind = k
           => /\ pc[c] \notin {"Lock", "LockWait", "store", "resolved"}
              /\ gvr[c] = None
              /\ pc[c] = "done" /\ (\E i \in DiscoveryCalls(c) : net[c][i].err # "Unavailable")
                   => res[c].err = "ResourceTypeNotFound"
              /\ pc[c] = "done" => res[c].err \in {"ResourceTypeNotFound", "DiscoveryUnavailable"}

\* Every goroutine has asked for the same unserved type name and got
\* resource-type-not-found; the cache is still empty.
C3_Witness ==
  /\ \A c \in Racers : /\ pc[c] = "done" /\ args[c].kind = "Nope"
                       /\ res[c].err = "ResourceTypeNotFound"
  /\ \A k \in Kinds : apiResourceCache[k] = None

\* C4 (concurrent first resolutions).  When every goroutine has returned from
\* its first resolution and they asked for pairwise different type names:
\* each made at most one discovery call (at most N together); each whose
\* discovery response carried its kind got a locator; the cache holds, for
\* each that got one, that locator under its type name, a locator of a
\* descriptor of exactly that kind; and the cache holds nothing else.
AllReturnedFirst == \A c \in Racers : pc[c] = "done" /\ ncalls[c] = 1
DistinctKinds == \A c, d \in Racers : c # d => args[c].kind # args[d].kind
AllDiscoveryCalls == {ci \in Racers \X (1..3) : ci[2] \in DiscoveryCalls(ci[1])}

C4_ConcurrentDistinctResolutions ==
  AllReturnedFirst /\ DistinctKinds
    => /\ \A c \in Racers : Cardinality(DiscoveryCalls(c)) <= 1
       /\ Cardinality(AllDiscoveryCalls) <= Cardinality(Racers)
       /\ \A c \in Racers :
            (\E i \in DiscoveryCalls(c) : net[c][i].err # "Unavailable" /\ net[c][i].offered)
              => res[c].err = Nil
       /\ \A c \in Racers :
            res[c].err = Nil
              => /\ apiResourceCache[args[c].kind] = res[c].val
                 /\ res[c].val \in ExactLocators(args[c].kind)
       /\ \A k \in Kinds :
            apiResourceCache[k] # None
              <=> \E c \in Racers : args[c].kind = k /\ res[c].err = Nil

\* Three goroutines have resolved Pod, Widget and Gadget, all unseen before,
\* and the cache holds the three entries.
C4_Witness ==
  /\ AllReturnedFirst /\ DistinctKinds
  /\ \A c \in Racers : res[c].err = Nil /\ ~cachedAtStart[c]
  /\ Cardinality({k \in Kinds : apiResourceCache[k] # None}) = Cardinality(Racers)
  /\ Cardinality(AllDiscoveryCalls) = Cardinality(Racers)

\* C5 (no deadlock).  Under fair scheduling every getCachedGVR call returns,
\* holding neither side of cacheLock.
C5_EveryResolutionReturns ==
  \A c \in Callers :
    (pc[c] \in InGetCachedGVR)
      ~> (pc[c] \in {"resolved", "done"} /\ c \notin readers /\ writer # c)

\* Contention on cacheLock: a goroutine that found its type name missing
\* waits for the write lock while the other, on its second call, holds the
\* read lock.
C5_Witness ==
  \E a, b \in Callers :
    /\ pc[a] = "LockWait" /\ writer = a
    /\ b \in readers /\ pc[b] = "lookup" /\ ncalls[b] = MaxLiveCalls

\* The update and create calls of the running invocation, in order, and
\* whether the backend failed one of its calls for a cause of its own.
WriteCalls(c) == SelectSeq(net[c], LAMBDA e : e.call \in {"update", "create"})
Faulted(c) == \E i \in 1..Len(net[c]) : net[c][i].err \in Faults
IsCOU(c) == args[c].op = "CreateOrUpdateResource"

\* C6 (missing name), as stated.  A CreateOrUpdateResource whose manifest
\* parses and carries no name returns the missing-name error and has made no
\* discovery call and no update or create call.
C6_AsStated ==
  \A c \in Goroutines :
    pc[c] = "done" /\ IsCOU(c) /\ obj[c] # None /\ GetName(obj[c]) = ""
      => /\ res[c].err = "MissingName"
         /\ DiscoveryCalls(c) = {}
         /\ WriteCalls(c) = << >>

\* C7 (update, then create).  The update and create calls of an invocation
\* are: none; one update; or one update that failed followed by one create.
\* After an update that failed, for whatever cause, the invocation is at the
\* create, and it returns only after it; after an update that succeeded it
\* has returned.  No other operation updates or creates.
C7_UpdateThenCreate ==
  \A c \in Goroutines :
    LET u == WriteCalls(c) IN
      /\ Len(u) <= 2
      /\ Len(u) >= 1 => u[1].call = "update" /\ IsCOU(c)
      /\ Len(u) = 2 => u[2].call = "create" /\ u[1].err # Nil /\ pc[c] = "done"
      /\ Len(u) = 1 /\ u[1].err # Nil => pc[c] = "create"
      /\ Len(u) = 1 /\ u[1].err = Nil => pc[c] = "done" /\ res[c].err = Nil
      /\ pc[c] = "create" => Len(u) = 1

\* An update refused for a conflict, not for a missing object, was followed
\* by a create, which the existing object made fail.
C7_Witness ==
  \E c \in Goroutines :
    /\ pc[c] = "done" /\ IsCOU(c)
    /\ WriteCalls(c) = <<[call |-> "update", err |-> "Conflict"],
                         [call |-> "create", err |-> "AlreadyExists"]>>
    /\ res[c].err = "AlreadyExists"

\* The key of the object a CreateOrUpdateResource at its backend calls
\* addresses.
Target(c) ==
  Key(gvr[c], GetNamespace(Effective(obj[c], args[c].namespace)),
      GetName(Effective(obj[c], args[c].namespace)))
OthersUnchanged(k) == \A k2 \in ObjKeys \ {k} : objects'[k2] = objects[k2]

\* C8 (update existing, create missing).  A step of CreateOrUpdateResource
\* at its update, with a named manifest and the backend serving the call:
\* when the object exists (and the manifest carries no stale version) the
\* step stores the manifest's content in that object and returns it; when
\* it does not exist the step changes nothing and goes on to the create.  A
\* served create of a missing object stores and returns it.
C8_Step ==
  \A c \in Goroutines :
    LET k == Target(c)
        o == Effective(obj[c], args[c].namespace)
        served == ~(\E i \in 1..Len(net'[c]) : net'[c][i].err \in Faults)
    IN /\ ( /\ pc[c] = "resolved" /\ IsCOU(c) /\ pc'[c] # "resolved"
            /\ GetName(o) # "" /\ k \in ObjKeys /\ served )
           => IF objects[k] # None /\ o.rv \in {0, objects[k].rv}
              THEN /\ pc'[c] = "done" /\ res'[c].err = Nil
                   /\ res'[c].val = objects'[k]
                   /\ objects'[k] = Object(o.name, o.namespace, o.val, objects[k].rv + 1)
                   /\ OthersUnchanged(k)
              ELSE /\ pc'[c] = "create" /\ objects' = objects
       /\ ( /\ pc[c] = "create" /\ pc'[c] # "create" /\ served
            /\ k \in ObjKeys /\ objects[k] = None )
           => /\ pc'[c] = "done" /\ res'[c].err = Nil
              /\ res'[c].val = objects'[k]
              /\ objects'[k] = Object(obj[c].name, obj[c].namespace, obj[c].val, 1)
              /\ OthersUnchanged(k)

\* A successful CreateOrUpdateResource returns the object as stored, with
\* the manifest's name and content; a GetResource of it that follows and is
\* served returns that object, and a served ListResources of its type and
\* namespace has it among its items.
C8_State ==
  \A c \in Goroutines :
    /\ pc[c] = "done" /\ IsCOU(c) /\ res[c].err = Nil
         => /\ res[c].val # None
            /\ objects[Target(c)] = res[c].val
            /\ res[c].val.name = Unmarshal(args[c].manifest).obj.name
            /\ res[c].val.val = Unmarshal(args[c].manifest).obj.val
    /\ ( /\ pc[c] = "done" /\ args[c].prev # None
         /\ args[c].prev.op = "CreateOrUpdateResource" /\ ~Faulted(c) )
         => /\ res[c].err = Nil
            /\ args[c].op = "GetResource" => res[c].val = args[c].prev.obj
            /\ args[c].op = "ListResources" => args[c].prev.obj \in res[c].val.items

\* C8: CreateOrUpdateResource updates the object its manifest names when it
\* exists and creates it when it does not, and a later GetResource or
\* ListResources shows the result.
C8_UpdatesExistingCreatesMissing == [][C8_Step]_vars /\ []C8_State

\* A GetResource has returned, with the changed content, the object that the
\* CreateOrUpdateResource before it updated (the object's second version).
C8_Witness ==
  \E c \in Goroutines :
    /\ pc[c] = "done" /\ args[c].op = "GetResource" /\ args[c].prev # None
    /\ args[c].prev.op = "CreateOrUpdateResource"
    /\ res[c].err = Nil /\ res[c].val = args[c].prev.obj
    /\ res[c].val.rv = 2 /\ res[c].val.val = 1

\* C9 (round trip).  The invocation is the round trip of an object that
\* GetResource returned.
IsRoundTrip(c) ==
  IsCOU(c) /\ args[c].prev # None /\ args[c].prev.op = "GetResource"
Origin(c) ==
  Key(apiResourceCache[args[c].kind], args[c].prev.obj.namespace, args[c].prev.obj.name)

\* No step of a round trip changes any object but the one that was read.
C9_Step ==
  \A c \in Goroutines :
    IsRoundTrip(c) /\ pc[c] \in {"resolved", "create"} /\ pc'[c] # pc[c]
      => OthersUnchanged(Origin(c))

\* A round trip resolves from the cache, no create of it succeeds, the object
\* read is still there, and when the round trip succeeds, as it does whenever
\* the backend serves its update, that object holds the modified content
\* under the same name and namespace, one version later.
C9_State ==
  \A c \in Goroutines :
    IsRoundTrip(c)
      => /\ cachedAtStart[c] /\ DiscoveryCalls(c) = {}
         /\ objects[Origin(c)] # None
         /\ \A i \in 1..Len(net[c]) : net[c][i].call = "create" => net[c][i].err # Nil
         /\ pc[c] = "done" /\ ~Faulted(c)
              => res[c].err = Nil /\ WriteCalls(c) = <<[call |-> "update", err |-> Nil]>>
         /\ pc[c] = "done" /\ res[c].err = Nil
              => /\ objects[Origin(c)] = res[c].val
                 /\ res[c].val = [Modify(args[c].prev.obj) EXCEPT !.rv = @ + 1]

\* C9: the round trip updates the object that was read, and creates none.
C9_RoundTripUpdatesSameObject == [][C9_Step]_vars /\ []C9_State

\* A round trip made without a namespace argument has updated the object it
\* read in namespace n1.
C9_Witness ==
  \E c \in Goroutines :
    /\ IsRoundTrip(c) /\ pc[c] = "done" /\ res[c].err = Nil
    /\ args[c].namespace = "" /\ args[c].prev.obj.namespace = "n1"
    /\ objects[Origin(c)].val = 1 - args[c].prev.obj.val

\* ---------------------------------------------------- the claims on logs
\* The invocation is a GetPodsLogs without a container name whose pod fetch
\* returned a pod with several containers.
IsMultiLogs(c) ==
  /\ args[c].op = "GetPodsLogs" /\ args[c].container = ""
  /\ \E i \in 1..Len(net[c]) : net[c][i].call = "podget" /\ net[c][i].err = Nil
  /\ Len(PodContainers[args[c].name]) > 1
StreamCalls(c, call, k) ==
  {i \in 1..Len(net[c]) : net[c][i].call = call /\ net[c][i].container = k}
LogCallsOf(c, call) ==
  {i \in 1..Len(net[c]) : net[c][i].call = call}
Follows(t, first, second) ==
  \E i \in 1..(Len(t) - 1) : t[i] = first /\ t[i + 1] = second

\* C11 (per-container log failure).  A GetPodsLogs over a pod with several
\* containers never returns an error once the pod is fetched, and the text it
\* returns has, for every container of the pod: its header followed by its
\* log content when its stream opened and was read; a marker naming it and
\* the error when its stream did not open; its header followed by the read
\* error when the read failed.
C11_PerContainerFailureTolerated ==
  \A c \in Goroutines :
    /\ args[c].op = "GetPodsLogs" /\ pc[c] \in {"Loop", "LoopCopy"} => res[c].err = "unset"
    /\ pc[c] = "done" /\ IsMultiLogs(c)
         => /\ res[c].err = Nil
            /\ \A j \in 1..Len(PodContainers[args[c].name]) :
                 LET k == PodContainers[args[c].name][j] IN
                   /\ Cardinality(StreamCalls(c, "stream", k)) = 1
                   /\ \A i \in StreamCalls(c, "stream", k) :
                        IF net[c][i].err # Nil
                        THEN \E n \in 1..Len(res[c].val) :
                               res[c].val[n] = [piece |-> "open-error", container |-> k,
                                                err |-> net[c][i].err]
                        ELSE /\ Cardinality(StreamCalls(c, "copy", k)) = 1
                             /\ \A r \in StreamCalls(c, "copy", k) :
                                  IF net[c][r].err # Nil
                                  THEN Follows(res[c].val,
                                               [piece |-> "header", container |-> k],
                                               [piece |-> "read-error", err |-> net[c][r].err])
                                  ELSE Follows(res[c].val,
                                               [piece |-> "header", container |-> k],
                                               [piece |-> "content", container |-> k])

\* The three containers of p3: the first was read, the second did not open,
\* the third failed to read; the call returned the text, not an error.
C11_Witness ==
  \E c \in Goroutines :
    /\ pc[c] = "done" /\ IsMultiLogs(c) /\ args[c].name = "p3" /\ res[c].err = Nil
    /\ res[c].val = <<[piece |-> "header", container |-> "a"],
                      [piece |-> "content", container |-> "a"],
                      [piece |-> "open-error", container |-> "b", err |-> "StreamError"],
                      [piece |-> "header", container |-> "c"],
                      [piece |-> "read-error", err |-> "ReadError"]>>

\* C12 (streams closed).  An invocation holds at most one log stream at a
\* time, holds one only while it copies it, and holds none when it has
\* returned, whichever streams failed to open or to read; every stream that
\* opened was copied once.
C12_StreamsClosed ==
  \A c \in Goroutines :
    /\ Cardinality(streams[c]) <= 1
    /\ streams[c] # {} => /\ pc[c] \in {"Copy", "CopyOne", "LoopCopy"}
                          /\ streams[c] = {Head(containers[c])}
    /\ pc[c] \in {"idle", "done"} => streams[c] = {}
    /\ pc[c] = "done" /\ args[c].op = "GetPodsLogs"
         => Cardinality({i \in LogCallsOf(c, "stream") : net[c][i].err = Nil})
              = Cardinality(LogCallsOf(c, "copy"))

\* A multi-container call has returned after a read error on one container
\* and a later container's stream opening; no stream is open.
C12_Witness ==
  \E c \in Goroutines :
    /\ pc[c] = "done" /\ IsMultiLogs(c) /\ streams[c] = {}
    /\ \E i, j \in 1..Len(net[c]) :
         /\ i < j
         /\ net[c][i].call = "copy" /\ net[c][i].err = "ReadError"
         /\ net[c][j].call = "stream" /\ net[c][j].err = Nil

\* ------------------------------------------------- the claims on errors
BackendOps == {"get", "list", "delete", "update", "create"}
BackendCalls(c) == {i \in 1..Len(net[c]) : net[c][i].call \in BackendOps}
\* The steps of the invocation that failed, the tolerated partial discovery
\* failure left out.
Failures(c) ==
  {i \in 1..Len(net[c]) :
     \/ net[c][i].call \in BackendOps /\ net[c][i].err # Nil
     \/ net[c][i].call = "discovery" /\ net[c][i].err = "Unavailable"}
\* The failures that are not the fallback's own signal: an update that
\* found no object is what sends CreateOrUpdateResource to the create.
Causes(c) ==
  {i \in Failures(c) : ~(net[c][i].call = "update" /\ net[c][i].err = "NotFound")}
First(S) == CHOOSE i \in S : \A j \in S : i <= j
\* The class under which getCachedGVR returns a discovery call's error
\* (line 247 wraps it with %w).
Class(call, err) == IF call = "discovery" THEN "DiscoveryUnavailable" ELSE err
CoreOps == {"GetResource", "ListResources", "DeleteResource", "DescribeResource",
            "CreateOrUpdateResource"}

\* C13 (classification), as stated.  An operation that returns an error
\* returns it in the class of the failure that made it fail: the first call
\* of the invocation that failed, an update's not-found apart; so also when
\* the update of CreateOrUpdateResource fails for a conflict or a fault.
C13_AsStated ==
  \A c \in Goroutines :
    pc[c] = "done" /\ args[c].op \in CoreOps /\ res[c].err # Nil /\ Causes(c) # {}
      => res[c].err = Class(net[c][First(Causes(c))].call, net[c][First(Causes(c))].err)

\* C14 (no swallowed error), as stated.  An operation one of whose discovery
\* or backend calls failed returns an error; the tolerated partial discovery
\* failure does not count, nor does the not-found of an update that the
\* create answers.
C14_AsStated ==
  \A c \in Goroutines :
    pc[c] = "done" /\ args[c].op \in CoreOps /\ Causes(c) # {}
      => res[c].err # Nil

\* C15 (no retries).  An invocation of GetResource, ListResources,
\* DeleteResource or DescribeResource makes at most one discovery call and at
\* most one backend call; when one of them has failed the invocation has
\* returned, with that failure, and has made no call after it.
C15_NoRetries ==
  \A c \in Goroutines :
    args[c].op \in {"GetResource", "ListResources", "DeleteResource", "DescribeResource"}
      => /\ Cardinality(DiscoveryCalls(c)) <= 1
         /\ Cardinality(BackendCalls(c)) <= 1
         /\ \A i \in Failures(c) :
              /\ i = Len(net[c])
              /\ pc[c] = "done"
              /\ res[c].err = Class(net[c][i].call, net[c][i].err)

\* A GetResource whose kind was not cached has returned a backend failure
\* after one discovery call and one Get.
C15_Witness ==
  \E c \in Goroutines :
    /\ pc[c] = "done" /\ args[c].op = "GetResource" /\ res[c].err = "BackendError"
    /\ Cardinality(DiscoveryCalls(c)) = 1 /\ Cardinality(BackendCalls(c)) = 1

\* C16 (cancellation), as stated.  Every network call an invocation makes
\* after its ctx was cancelled is aborted, that is, returns context.Canceled;
\* and an invocation that has returned holds no stream.
C16_Step ==
  \A c \in Goroutines :
    ( /\ ctx[c] = "cancelled"
      /\ Len(net'[c]) = Len(net[c]) + 1
      /\ net'[c][Len(net'[c])].call # "store" )
      => net'[c][Len(net'[c])].err = "Canceled"
C16_AsStated ==
  /\ [][C16_Step]_vars
  /\ [](\A c \in Goroutines : pc[c] = "done" => streams[c] = {})

\* C17 (empty list).  A ListResources whose type resolved and whose List
\* call the backend served returns no error and exactly the objects of that
\* type in that namespace (in every namespace when none is given): with no
\* such object, the empty sequence.
C17_EmptyListIsSuccess ==
  \A c \in Goroutines :
    ( /\ pc[c] = "done" /\ args[c].op = "ListResources"
      /\ \E i \in 1..Len(net[c]) : net[c][i].call = "list" /\ net[c][i].err = Nil )
      => /\ res[c].err = Nil
         /\ res[c].val.items =
              {objects[k] : k \in {k \in ObjKeys :
                 /\ k.gvr = apiResourceCache[args[c].kind]
                 /\ args[c].namespace \in {"", k.namespace}
                 /\ objects[k] # None}}

\* ListResources of a type that resolved, in a namespace holding no object of
\* it, has returned the empty sequence.
C17_Witness ==
  \E c \in Goroutines :
    /\ pc[c] = "done" /\ args[c].op = "ListResources" /\ args[c].namespace = "n1"
    /\ res[c].err = Nil /\ res[c].val.items = {}

\* The namespace CreateOrUpdateResource is to write in: the argument when it
\* is not empty, else the manifest's.
WriteNamespace(c) ==
  IF args[c].namespace # "" THEN args[c].namespace
  ELSE Unmarshal(args[c].manifest).obj.namespace

\* C18 (namespace override).  Once CreateOrUpdateResource has issued its
\* update, the object it sends carries the argument's namespace when the
\* argument is not empty and the manifest's namespace otherwise; the update
\* and the create change no object outside that namespace, and an object
\* returned is stored there.
C18_Step ==
  \A c \in Goroutines :
    IsCOU(c) /\ pc[c] \in {"resolved", "create"} /\ pc'[c] # pc[c]
      => \A k \in ObjKeys :
           objects'[k] # objects[k]
             => k = Key(gvr[c], WriteNamespace(c), Unmarshal(args[c].manifest).obj.name)
C18_State ==
  \A c \in Goroutines :
    IsCOU(c) /\ WriteCalls(c) # << >>
      => /\ GetNamespace(obj[c]) = WriteNamespace(c)
         /\ pc[c] = "done" /\ res[c].err = Nil
              => /\ res[c].val # None
                 /\ res[c].val.namespace = WriteNamespace(c)
                 /\ objects[Key(gvr[c], WriteNamespace(c), res[c].val.name)] = res[c].val

\* C18: the namespace argument, when given, decides where the update and the
\* create go; the manifest's namespace decides otherwise.
C18_NamespaceOverride == [][C18_Step]_vars /\ []C18_State

\* A manifest naming namespace n2 was written, with the argument n1, to n1.
C18_Witness ==
  \E c \in Goroutines :
    /\ pc[c] = "done" /\ IsCOU(c) /\ res[c].err = Nil
    /\ args[c].namespace = "n1" /\ Unmarshal(args[c].manifest).obj.namespace = "n2"
    /\ res[c].val.namespace = "n1"

\* What the Get of GetResource (lines 129-139) returns from a state, and what
\* the Get of DescribeResource (lines 284-294) returns from it, for a backend
\* fault f.
AsGetResource(c, f) ==
  LET r == GetResourceCall(objects, gvr[c], args[c].name, args[c].namespace, f)
  IN [err |-> r.err, val |-> r.obj]
AsDescribeResource(c, f) ==
  LET r == DescribeResourceCall(objects, gvr[c], args[c].name, args[c].namespace, f)
  IN [err |-> r.err, val |-> r.obj]

\* C19 (describe is get).  The backend call of a DescribeResource and of a
\* GetResource, made from the same state with the same arguments and the same
\* backend answer, return the same object or the same error, make the same
\* single Get call, and leave the cache and the cluster untouched.
C19_Step ==
  \A c \in Goroutines :
    /\ pc[c] = "resolved" /\ pc'[c] # pc[c]
    /\ args[c].op \in {"GetResource", "DescribeResource"}
    => /\ \E f \in Outcomes \cup {"Canceled"} :
            /\ res'[c] = AsGetResource(c, f)
            /\ res'[c] = AsDescribeResource(c, f)
            /\ net'[c] = Append(net[c], [call |-> "get", err |-> res'[c].err])
       /\ apiResourceCache' = apiResourceCache
       /\ objects' = objects

\* C19: a finished DescribeResource holds what GetResource returns for its
\* arguments: the stored object when the Get was served and the object
\* exists, the Get's error otherwise; both resolve the kind by the same
\* getCachedGVR, so the discovery calls and the cache agree too.
C19_State ==
  \A c \in Goroutines :
    /\ pc[c] = "done" /\ args[c].op = "DescribeResource"
    /\ net[c] # << >> /\ net[c][Len(net[c])].call = "get"
    => LET e == net[c][Len(net[c])].err
           f == IF e \in {Nil, "NotFound"} THEN Nil ELSE e
       IN /\ gvr[c] = apiResourceCache[args[c].kind]
          /\ res[c] = AsGetResource(c, f)
          /\ Cardinality(DiscoveryCalls(c)) <= 1

C19_DescribeIsGet == [][C19_Step]_vars /\ []C19_State

\* A DescribeResource returned the object of the namespace it was asked for.
C19_Witness ==
  \E c \in Goroutines :
    /\ pc[c] = "done" /\ args[c].op = "DescribeResource"
    /\ res[c].err = Nil /\ res[c].val # None
    /\ res[c].val.namespace = args[c].namespace

\* The server was started with --read-only.
ReadOnly == "-read-only" \in server.argv

\* C20 (read-only mode).  A server started with --read-only runs, has no
\* tool registered that creates, updates or deletes, and no step of it
\* changes a cluster object or a Helm release.
C20_Step ==
  ReadOnly => /\ objects' = objects
              /\ server'.releases = server.releases
C20_State ==
  ReadOnly => /\ server.pc # "exit2"
              /\ server.tools \cap WriteTools = {}
C20_AsStated == [][C20_Step]_vars /\ []C20_State

\* C21 (YAML or JSON).  The YAML text and the JSON text of one object parse
\* to the same object tree, and a CreateOrUpdateResource given either ends
\* the same way: in particular the YAML text is not refused by the parser.
C21_AsStated ==
  \A c \in Goroutines :
    IsCOU(c)
      => /\ Unmarshal(args[c].manifest) = Unmarshal(Manifest("json", args[c].manifest.doc))
         /\ pc[c] = "done" => res[c].err # "ParseError"

\* Each argument of a createResource request in the role its name gives it.
ForwardInOwnRole(request) ==
  [kind |-> String(request.kind), namespace |-> String(request.namespace),
   manifest |-> request.manifest]

\* C22 (arguments in their roles).  In every client call the createResource
\* handler makes, the manifest the client parses is the request's manifest,
\* the namespace override is the request's namespace and the kind resolved
\* is the request's kind.
C22_AsStated ==
  \A c \in Goroutines :
    IsCOU(c) /\ args[c].request # None
      => LET a == ForwardInOwnRole(args[c].request)
         IN /\ args[c].manifest = a.manifest
            /\ args[c].namespace = a.namespace
            /\ args[c].kind = a.kind

\* C23 (cache only grows).  The cache is empty at construction, and an entry
\* that exists is never removed and never given another locator.
C23_Step ==
  \A k \in Kinds :
    apiResourceCache[k] # None => apiResourceCache'[k] = apiResourceCache[k]
C23_AsStated ==
  /\ \A k \in Kinds : apiResourceCache[k] = None
  /\ [][C23_Step]_vars

\* C24 (no half-written read).  No goroutine is at the cache lookup while
\* another is at the cache write; the goroutine at the lookup holds the lock
\* for reading, the one at the write holds it alone.
C24_State ==
  /\ Cardinality({d \in Goroutines : pc[d] = "store"}) <= 1
  /\ \A c \in Goroutines :
       /\ pc[c] = "lookup" => c \in readers /\ \A d \in Goroutines : pc[d] # "store"
       /\ pc[c] = "store" => writer = c /\ readers = {}

\* Every lookup ends in a miss, taken when the cache has no entry for the
\* kind, or returns the entry as it is: the complete locator of a
\* descriptor of this kind, as a resolution stored it.
C24_Step ==
  \A c \in Goroutines :
    pc[c] = "lookup" /\ pc'[c] # "lookup"
      => \/ /\ pc'[c] = "discover"
            /\ apiResourceCache[args[c].kind] = None
         \/ /\ pc'[c] = "resolved"
            /\ gvr'[c] \in Locators
            /\ gvr'[c] = apiResourceCache[args[c].kind]
            /\ gvr'[c] \in ExactLocators(args[c].kind)

C24_ReadsSeeWholeEntries == [][C24_Step]_vars /\ []C24_State

\* A reader is at the lookup of a cached kind while a writer that has
\* announced itself waits for it to leave.
C24_Witness ==
  \E c, d \in Goroutines :
    /\ pc[c] = "lookup" /\ pc[d] = "LockWait"
    /\ apiResourceCache[args[c].kind] # None

\* The descriptors of a discovery response that the scan reads (those of
\* the lists whose GroupVersion is well formed) and whose kind is exactly
\* the type name, by position: list, then place in the list.
ExactMatches(lists, kind) ==
  {p \in {q \in (1..Len(lists)) \X (1..2) : q[2] <= Len(lists[q[1]].APIResources)} :
     /\ ParseGroupVersion(lists[p[1]].GroupVersion).err = Nil
     /\ lists[p[1]].APIResources[p[2]].Kind = kind}
Before(p, q) == p[1] < q[1] \/ (p[1] = q[1] /\ p[2] <= q[2])
FirstMatch(lists, kind) ==
  CHOOSE p \in ExactMatches(lists, kind) : \A q \in ExactMatches(lists, kind) : Before(p, q)

\* C25 (first exact match).  Every resolution that went to discovery and got
\* a response returns the locator of the first descriptor, in the order of
\* the response, whose kind is the type name letter for letter: the group
\* and version of its list and its plural name; with no such descriptor
\* (a name in another case included) it reports the type not found.
C25_Step ==
  \A c \in Goroutines :
    pc[c] = "discover" /\ pc'[c] # "discover"
      => \E failed \in SUBSET Groups, total \in BOOLEAN :
           LET d == ServerPreferredResources(failed, total)
               last == net'[c][Len(net'[c])]
           IN /\ total => failed = Groups
              /\ last.call = "discovery" /\ last.err = d.err
              /\ IF total
                 THEN pc'[c] = "done" /\ res'[c].err = "DiscoveryUnavailable"
                 ELSE IF ExactMatches(d.lists, args[c].kind) = {}
                 THEN pc'[c] = "done" /\ res'[c].err = "ResourceTypeNotFound"
                 ELSE LET p == FirstMatch(d.lists, args[c].kind)
                          gv == ParseGroupVersion(d.lists[p[1]].GroupVersion)
                      IN /\ pc'[c] = "Lock"
                         /\ gvr'[c] = GVR(gv.Group, gv.Version,
                                          d.lists[p[1]].APIResources[p[2]].Name)
C25_State ==
  \A c \in Goroutines :
    pc[c] = "done" /\ args[c].op = "getCachedGVR"
      => /\ args[c].kind \in {"pod", "widget"} => res[c].err # Nil
         /\ (args[c].kind = "Widget" /\ res[c].err = Nil
               /\ \E i \in DiscoveryCalls(c) : net[c][i].err = Nil)
              => res[c].val = GVR("a.io", "v1", "widgets")
C25_FirstExactMatch == [][C25_Step]_vars /\ []C25_State

\* With every group discovered, one goroutine resolved Widget, served by two
\* groups, to the first; another was told that pod is not found.
C25_Witness ==
  \E c, d \in Goroutines :
    /\ pc[c] = "done" /\ args[c].kind = "Widget"
    /\ res[c].val = GVR("a.io", "v1", "widgets")
    /\ \E i \in DiscoveryCalls(c) : net[c][i].err = Nil
    /\ pc[d] = "done" /\ args[d].kind = "pod" /\ res[d].err = "ResourceTypeNotFound"
    /\ \E i \in DiscoveryCalls(d) : net[d][i].err = Nil

\* Two invocations of CreateOrUpdateResource that ran side by side for
\* Gadget x in n1, absent at the start, the first invocation of each caller,
\* have both returned; each got as far as its update and the backend
\* answered every call it was sent.
BothWroteAbsent ==
  \A c \in Callers :
    /\ ncalls[c] = 1 /\ pc[c] = "done" /\ IsCOU(c) /\ args[c].kind = "Gadget"
    /\ WriteCalls(c) # << >> /\ ~Faulted(c)
Created(c) == \E i \in 1..Len(net[c]) : net[c][i].call = "create" /\ net[c][i].err = Nil

\* C26 (concurrent upserts of one absent object).  After both have returned,
\* the object exists, once; at least one of the two returned success; one
\* create at most was served, and a call that returned an error made none.
C26_OneObjectOneSuccess ==
  BothWroteAbsent
    => /\ objects[Key(GVR("b.io", "v1", "gadgets"), "n1", "x")] # None
       /\ Cardinality({k \in ObjKeys : k.gvr = GVR("b.io", "v1", "gadgets")
                                        /\ objects[k] # None}) = 1
       /\ \E c \in Callers : res[c].err = Nil /\ res[c].val # None
       /\ Cardinality({c \in Callers : Created(c)}) = 1
       /\ \A c \in Callers : res[c].err # Nil => ~Created(c)

\* Both updates found nothing, one create was served and the other was
\* refused because the object was there by then.
C26_Witness ==
  /\ BothWroteAbsent
  /\ \E c, d \in Callers :
       /\ res[c].err = Nil /\ Created(c)
       /\ res[d].err = "AlreadyExists"
       /\ \A e \in {c, d} : net[e][Len(net[e]) - 1].err = "NotFound"

\* Goroutine c is at the Get of a GetResource, and the step it takes is that
\* Get, answered by the backend.
GetServed(c) ==
  /\ pc[c] = "resolved" /\ args[c].op = "GetResource" /\ pc'[c] = "done"
  /\ net'[c][Len(net'[c])].err \notin Faults \cup {"Canceled"}
\* The object GetResource of c asks for.
Asked(c) == Key(gvr[c], args[c].namespace, args[c].name)
\* Goroutine d is between the failed update and the create of a
\* CreateOrUpdateResource for the object c asks for, which is absent.
InWindow(d, c) ==
  /\ pc[d] = "create" /\ IsCOU(d) /\ Target(d) = Asked(c)
  /\ Asked(c) \in ObjKeys /\ objects[Asked(c)] = None
\* Goroutine d has returned from a CreateOrUpdateResource that created the
\* object c asks for.
AfterCreate(d, c) ==
  /\ pc[d] = "done" /\ IsCOU(d) /\ Created(d) /\ Target(d) = Asked(c)

\* C27 (the fallback is not atomic).  A GetResource whose Get is answered
\* while another goroutine is between its failed update and its create of
\* the same, absent object returns not-found; one whose Get is answered
\* after that create succeeded returns the object.
C27_Step ==
  \A c, d \in Goroutines :
    GetServed(c)
      => /\ InWindow(d, c) => res'[c].err = "NotFound" /\ res'[c].val = None
         /\ AfterCreate(d, c)
              => /\ res'[c].err = Nil /\ res'[c].val # None
                 /\ res'[c].val = objects[Asked(c)]
C27_NotAtomic == [][C27_Step]_vars

\* A GetResource has returned not-found for Gadget x in n1 while the other
\* goroutine, its update failed, has not yet made its create.
C27_Witness ==
  \E c, d \in Goroutines :
    /\ pc[c] = "done" /\ args[c].op = "GetResource" /\ res[c].err = "NotFound"
    /\ gvr[c] # None /\ InWindow(d, c)
    /\ net[d] # << >> /\ net[d][Len(net[d])] = [call |-> "update", err |-> "NotFound"]

\* C28 (parse before resolve).  A CreateOrUpdateResource whose manifest text
\* does not parse has returned the parse error at once: it has made no
\* discovery call and no update or create call, and the step that started it
\* left the cache and the cluster as they were.
C28_State ==
  \A c \in Goroutines :
    IsCOU(c) /\ Unmarshal(args[c].manifest).err # Nil
      => /\ pc[c] = "done"
         /\ res[c].err = "ParseError" /\ res[c].val = None
         /\ net[c] = << >>
C28_Step ==
  \A c \in Goroutines :
    (ncalls'[c] # ncalls[c] /\ args'[c].op = "CreateOrUpdateResource"
       /\ Unmarshal(args'[c].manifest).err # Nil)
      => /\ apiResourceCache' = apiResourceCache
         /\ objects' = objects
         /\ readers' = readers /\ writer' = writer
C28_ParseErrorFirst == [][C28_Step]_vars /\ []C28_State

\* A manifest that does not parse was refused for a kind the cache does not
\* hold, and the cache still does not hold it.
C28_Witness ==
  \E c \in Goroutines :
    /\ pc[c] = "done" /\ IsCOU(c) /\ res[c].err = "ParseError"
    /\ ncalls[c] > 1
    /\ apiResourceCache[args[c].kind] = None
    /\ \E k \in Kinds : apiResourceCache[k] # None

\* C29 (singleton client), as stated.  The clientset is initialised at most
\* once; GetRESTConfig returns a config only when a GetClient call has
\* completed before; and a /resources request handled before any GetClient
\* call ends the process without a response.
C29_InitialisedOnce == server.inits <= 1
C29_ConfigOnlyAfterGetClient ==
  \A c \in Goroutines :
    pc[c] = "GetRESTConfig" /\ pc'[c] = "Discovery" => server.once = "done"
C29_FatalBeforeGetClient ==
  \A c \in Goroutines :
    (pc[c] = "GetRESTConfig" /\ server.once = "fresh")
      => /\ pc'[c] = "GetRESTConfig" /\ res'[c] = NoRes
         /\ server'.pc \in {"listening", "exit1"}
         /\ (server'.pc = "exit1" /\ server.pc = "listening")
              => \E d \in Goroutines : pc[d] = "GetRESTConfig"
C29_AsStated ==
  /\ []C29_InitialisedOnce
  /\ [][C29_ConfigOnlyAfterGetClient /\ C29_FatalBeforeGetClient]_vars

\* C30 (graceful shutdown), as stated.  Once the goroutine of
\* handleGracefulShutdown has taken an interrupt or SIGTERM from its channel
\* and cancelled the root context, the server stops serving and the process
\* ends: the shutdown completes.
C30_AsStated ==
  (server.handler = "exited" /\ server.root = "cancelled") ~> ~Alive

====
